---- MODULE Spec2Model ----
(***************************************************************************)
(* Model of the two pagination engines of lib/tasks.js:                    *)
(*   searchTasks        - time-cursor pagination over the search endpoint  *)
(*   getTasksForProject - offset pagination with client-side filtering     *)
(* Each engine is a sequential async function: it is modelled as a         *)
(* process whose steps are delimited by its await points.  The upstream    *)
(* service and the abort signal are the environment.                       *)
(***************************************************************************)
EXTENDS Integers, Sequences, FiniteSets, TLC

----------------------------------------------------------------------------
(* Bounds of the model *)

\* the upstream data set of a search holds up to MaxPages full pages (+1)
MaxPages == 3
\* up to MaxTie consecutive tasks share one millisecond
MaxTie == 2
\* a project holds at most MaxProjectTasks tasks
MaxProjectTasks == 9
\* the sanitizer is given strings of at most MaxHtmlLen characters
MaxHtmlLen == 5
\* a markdown text holds at most MaxBlocks blocks
MaxBlocks == 2
\* an opt_fields list names at most MaxFields fields
MaxFields == 4
\* tool calls one server process receives
MaxCalls == 2
\* projects the upstream service holds in the first workspace
MaxProjects == 250
\* calls of searchProjects made one after another
MaxSearches == 2
\* days the clock runs for
MaxDays == 2

----------------------------------------------------------------------------
(* Program constants *)

\* const maxResults = searchOptions.maxResults || 100
DefaultMaxResults == 100
\* limit: searchOptions.limit || 100
DefaultLimit == 100
\* maxResults > 100: the single-page ceiling of the search endpoint
SinglePageMax == 100

----------------------------------------------------------------------------
(* Generic helpers *)

Min(a, b) == IF a < b THEN a ELSE b

\* Array.prototype.slice(0, n) for n >= 0
Slice(s, n) == SubSeq(s, 1, Min(n, Len(s)))

Range(s) == {s[k] : k \in DOMAIN s}

\* the sequence lo, lo+1, ..., hi
Upto(lo, hi) == [k \in 1..(IF hi >= lo THEN hi - lo + 1 ELSE 0) |-> lo + k - 1]

\* the sequence hi, hi-1, ..., lo
Downto(hi, lo) == [k \in 1..(IF hi >= lo THEN hi - lo + 1 ELSE 0) |-> hi - k + 1]

----------------------------------------------------------------------------
(* Timestamps.  An ISO-8601 string "....ss.mmmZ" is the pair               *)
(* <<seconds, milliseconds>>; a missing field is <<>>.  new Date(s)        *)
(* .getTime() and Date.prototype.toISOString convert between the string    *)
(* and the millisecond count.                                              *)

NoTime == <<>>

\* new Date(iso).getTime()
GetTime(iso) == iso[1] * 1000 + iso[2]

\* new Date(ms).toISOString()
ToISOString(ms) == <<ms \div 1000, ms % 1000>>

----------------------------------------------------------------------------
VARIABLES
    op,             \* which engine this invocation runs: "search" | "fetch"
    pc,             \* position of the async function
    signalAborted,  \* signal.aborted
    upstream,       \* the data set held by the upstream service
    searchOptions,  \* searchTasks: argument
    apiOptions,     \* the query object sent upstream (mutated between pages)
    allTasks,       \* accumulator (gids, in order)
    requests,       \* the apiOptions of every upstream call issued, in order
    pageLens,       \* data.length of every response received, in order
    fetchOptions,   \* getTasksForProject: arguments (projectGid and options)
    offset,         \* getTasksForProject: let offset (0 when null/undefined)
    tokens,         \* next_page.offset of every response received (0 when absent)
    fetched,        \* getTasksForProject: every item received, before filtering
    lastTimeMissing,\* the last response omitted the time field of its last item
    error,          \* message of the error thrown to the caller, "" if none
    result,         \* the array returned to the caller
    arg,            \* argument of a call of one of the pure helper functions
    ret,            \* what that call returned (sanitizeHtml: let result)
    i,              \* sanitizeHtml: let i, as a position counted from 1
    readableNotes,  \* displayTaskDetails: let readableNotes
    content,        \* save_task_notes: let content
    currentUser,    \* MCP server: let currentUser ("null" until initialized)
    client,         \* MCP server: how many times the API instances were assigned
    env,            \* MCP server: process.env
    calls,          \* MCP server: the tool calls of this process, by arrival
    cacheFile,      \* lib/projects.js: what CACHE_FILE holds
    allProjects,    \* searchProjects: let allProjects
    now             \* Date.now()

vars == <<op, pc, signalAborted, upstream, searchOptions, apiOptions, allTasks,
          requests, pageLens, fetchOptions, offset, tokens, fetched,
          lastTimeMissing, error, result, arg, ret, i,
          readableNotes, content, currentUser, client, env, calls, cacheFile,
          allProjects, now>>

\* the variables only getTasksForProject uses
fetchVars == <<fetchOptions, offset, tokens, fetched>>

\* the variables only the pure helper functions use
callVars == <<arg, ret, i, readableNotes, content>>

\* the variables that hold a conversion of stored notes back to markdown
notesVars == <<readableNotes, content>>

\* the variables of the MCP server process and of the projects cache
processVars == <<currentUser, client, env, calls, cacheFile, allProjects, now>>

\* their values while no server runs and no cache file is there
ProcessIdle ==
    /\ currentUser = "null"
    /\ client = 0
    /\ env = [ASANA_API_KEY |-> FALSE]
    /\ calls = <<>>
    /\ cacheFile = [state |-> "missing"]
    /\ allProjects = <<>>
    /\ now = 0

----------------------------------------------------------------------------
(* The upstream search endpoint (environment).                             *)
(* Task gids are 1..upstream.n in creation order.  created_at grows with   *)
(* the gid, `tie` consecutive tasks sharing a millisecond; modified_at     *)
(* runs in the opposite order (the oldest task was modified last).         *)

\* time of the oldest task: 1 ms before a full second, so that cursors are
\* computed across a second boundary
BaseTime == 5 * 1000 - 1

\* the time fields of a task, as millisecond counts
TimeMs(field, gid) ==
    IF field = "modified_at" THEN BaseTime + ((upstream.n - gid) \div upstream.tie)
    ELSE BaseTime + ((gid - 1) \div upstream.tie)

\* task[field] as the service prints it
TimeOf(field, gid) == ToISOString(TimeMs(field, gid))

\* the server-side text filter matches name or description ...
ServerTextMatch(gid) == gid % 3 # 0
\* ... the name itself contains the text for fewer tasks
NameIncludesText(gid) == gid % 3 = 1

\* README: --sort_ascending <true|false> - Sort direction (default: false)
UpstreamAscending(q) == q.sort_ascending = "true"

\* all gids in the order the request asks for (ties in gid order)
UpstreamOrder(q) ==
    IF q.sort_by \in {"created_at", "modified_at"}
       /\ UpstreamAscending(q) # (q.sort_by = "created_at")
    THEN Downto(upstream.n, 1)
    ELSE Upto(1, upstream.n)

\* <field>.before / <field>.after: exclusive or inclusive, as the service decides
Before(ms, bound) == IF upstream.strict THEN ms < bound ELSE ms <= bound
After(ms, bound) == IF upstream.strict THEN ms > bound ELSE ms >= bound

\* searchTasksForWorkspace(workspace, q).data
UpstreamSearch(q) ==
    LET hasBefore == q.before # <<>>
        hasAfter == q.after # <<>>
        before == IF hasBefore THEN GetTime(q.before[2]) ELSE 0
        after == IF hasAfter THEN GetTime(q.after[2]) ELSE 0
        matches(gid) ==
            /\ hasBefore => Before(TimeMs(q.before[1], gid), before)
            /\ hasAfter => After(TimeMs(q.after[1], gid), after)
            /\ q.text => ServerTextMatch(gid)
    IN  Slice(SelectSeq(UpstreamOrder(q), matches), q.limit)

----------------------------------------------------------------------------
(* searchTasks *)

\* faulty variant: the cap of the request is read as a number of pages
maxResults_Mut == IF searchOptions.maxResults # 0
                  THEN searchOptions.maxResults * DefaultLimit
                  ELSE DefaultMaxResults

\* const maxResults = searchOptions.maxResults || 100
maxResults == IF searchOptions.maxResults # 0 THEN searchOptions.maxResults
              ELSE DefaultMaxResults

\* faulty variant: the guard compares the cap with the file-output default of 1000
PaginationSortUnsupported_Mut(max, sortBy) ==
    max > 1000 /\ sortBy # "created_at" /\ sortBy # "modified_at"

\* maxResults > 100 && sortBy !== 'created_at' && sortBy !== 'modified_at'
PaginationSortUnsupported(max, sortBy) ==
    max > SinglePageMax /\ sortBy # "created_at" /\ sortBy # "modified_at"

\* const sortAscending = apiOptions.sort_ascending !== false
sortAscending == apiOptions.sort_ascending # "false"

\* const timeField = apiOptions.sort_by === 'modified_at' ? 'modified_at' : 'created_at'
timeField == IF apiOptions.sort_by = "modified_at" THEN "modified_at" ELSE "created_at"

useTimePagination ==
    /\ apiOptions.sort_by \in {"created_at", "modified_at"}
    /\ maxResults > SinglePageMax

\* faulty variant: the signal is tested before the first call only
Cancelled_Mut == signalAborted /\ requests = <<>>

\* signal?.aborted
Cancelled == signalAborted

\* faulty variant: the shift is applied to the milliseconds field, without carry
NextTimestamp_Mut(lastTimestamp, ascending) ==
    <<lastTimestamp[1], (lastTimestamp[2] + (IF ascending THEN 1 ELSE -1)) % 1000>>

\* new Date(lastDate.getTime() + (sortAscending ? 1 : -1)).toISOString()
NextTimestamp(lastTimestamp, ascending) ==
    ToISOString(GetTime(lastTimestamp) + (IF ascending THEN 1 ELSE -1))

\* apiOptions[`${timeField}.after`] = ... / apiOptions[`${timeField}.before`] = ...
WithCursor(q, field, nextTimestamp, ascending) ==
    IF ascending THEN [q EXCEPT !.after = <<field, nextTimestamp>>]
    ELSE [q EXCEPT !.before = <<field, nextTimestamp>>]

\* allTasks.filter(task => task.name.toLowerCase().includes(searchLower))
TextFiltered(tasks) ==
    IF searchOptions.text THEN SelectSeq(tasks, NameIncludesText) ELSE tasks

\* the value searchTasks returns for the accumulated list
SearchReturn(tasks) == TextFiltered(tasks)

\* faulty variant: the page just received is not added to the accumulator
Gathered_Mut(tasks, data) == tasks

\* allTasks = allTasks.concat(result.data)
Gathered(tasks, data) == tasks \o data

\* lines 286-415: argument checks and construction of the query
SearchStart ==
    /\ op = "search" /\ pc = "start"
    /\ IF ~searchOptions.workspace
       THEN /\ pc' = "failed"
            /\ error' = "workspace is required for task search"
            /\ UNCHANGED apiOptions
       ELSE LET defaulted == searchOptions.sort_by = "none"
                sortBy == IF defaulted THEN "created_at" ELSE searchOptions.sort_by
                q == [limit |-> IF searchOptions.limit # 0 THEN searchOptions.limit
                                ELSE DefaultLimit,
                      text |-> searchOptions.text,
                      sort_by |-> sortBy,
                      sort_ascending |-> IF defaulted THEN "false"
                                         ELSE searchOptions.sort_ascending,
                      before |-> <<>>,
                      after |-> <<>>]
            IN  /\ apiOptions' = q
                /\ IF PaginationSortUnsupported(maxResults, sortBy)
                   THEN /\ pc' = "failed"
                        /\ error' = "Pagination beyond 100 results requires sort_by"
                   ELSE /\ pc' = "loop"
                        /\ UNCHANGED error
    /\ UNCHANGED <<op, signalAborted, upstream, searchOptions, allTasks, requests,
                   pageLens, lastTimeMissing, result, fetchVars, callVars, processVars>>

\* lines 419-428: top of the do-while body up to the await
SearchLoopTop ==
    /\ op = "search" /\ pc = "loop"
    /\ IF Cancelled
       THEN /\ pc' = "failed"
            /\ error' = "Request cancelled"
            /\ UNCHANGED requests
       ELSE /\ pc' = "await"
            /\ requests' = Append(requests, apiOptions)
            /\ UNCHANGED error
    /\ UNCHANGED <<op, signalAborted, upstream, searchOptions, apiOptions, allTasks,
                   pageLens, lastTimeMissing, result, fetchVars, callVars, processVars>>

\* lines 428-511: the response arrives; rest of the loop body, and the
\* code after the loop when the loop ends
SearchReceived(data) ==
    /\ op = "search" /\ pc = "await"
    /\ LET acc == Gathered(allTasks, data)
           paginate == useTimePagination /\ Len(data) = apiOptions.limit
           finish(tasks) == /\ pc' = "done"
                            /\ result' = SearchReturn(tasks)
                            /\ UNCHANGED apiOptions
       IN  /\ pageLens' = Append(pageLens, Len(data))
           /\ IF Len(data) = 0
              THEN /\ finish(allTasks)
                   /\ UNCHANGED <<allTasks, lastTimeMissing>>
              ELSE /\ allTasks' = acc
                   /\ IF Len(acc) >= maxResults \/ ~paginate
                      THEN finish(acc) /\ UNCHANGED lastTimeMissing
                      ELSE \E lastTimestamp \in {NoTime, TimeOf(timeField, data[Len(data)])} :
                           IF lastTimestamp = NoTime
                           THEN finish(acc) /\ lastTimeMissing' = TRUE
                           ELSE /\ apiOptions' = WithCursor(apiOptions, timeField,
                                       NextTimestamp(lastTimestamp, sortAscending),
                                       sortAscending)
                                \* } while (allTasks.length < maxResults)
                                /\ pc' = "loop"
                                /\ UNCHANGED <<result, lastTimeMissing>>
    /\ UNCHANGED <<op, signalAborted, upstream, searchOptions, requests, error,
                   fetchVars, callVars, processVars>>

\* the response of an upstream that holds the data set `upstream`
SearchReceive == SearchReceived(UpstreamSearch(apiOptions))

\* the owner of the AbortController aborts the request
Abort ==
    /\ pc \in {"start", "loop", "await"}
    /\ ~signalAborted
    /\ signalAborted' = TRUE
    /\ UNCHANGED <<op, pc, upstream, searchOptions, apiOptions, allTasks, requests,
                   pageLens, lastTimeMissing, error, result, fetchVars, callVars, processVars>>

----------------------------------------------------------------------------
(* The upstream project-task listing (environment).                        *)
(* The project holds the tasks 1..upstream.n, in this order.  A page       *)
(* starts at the position the offset token names (the token of position p  *)
(* is p; no token: position 1) and holds up to `limit` tasks.              *)

\* task.completed
TaskCompleted(gid) == gid % 2 = 0

\* the section gids of task.memberships (no memberships: {})
TaskSections(gid) ==
    IF gid % 3 = 0 THEN {} ELSE IF gid % 3 = 1 THEN {"S1"} ELSE {"S1", "S2"}

\* task.assignee.gid, "" when task.assignee is null
TaskAssignee(gid) ==
    LET k == ((gid + 1) \div 2) % 3
    IN  IF k = 0 THEN "" ELSE IF k = 1 THEN "U1" ELSE "U2"

\* result.data of getTasksForProject(projectGid, q)
ProjectPage(q) ==
    LET start == IF q.offset # 0 THEN q.offset ELSE 1
    IN  Upto(start, Min(start + q.limit - 1, upstream.n))

\* result._response.next_page.offset (0: next_page is null); an eager service
\* issues a token after every full page, even when nothing is left
ProjectNextToken(q) ==
    LET start == IF q.offset # 0 THEN q.offset ELSE 1
        data == ProjectPage(q)
        next == start + Len(data)
    IN  IF next <= upstream.n \/ (upstream.eager /\ Len(data) = q.limit)
        THEN next ELSE 0

----------------------------------------------------------------------------
(* getTasksForProject *)

\* the service's page maximum: Math.min(options.limit || 100, 100)
MaxPageLimit == 100
\* const maxResults = options.maxResults || 100
FetchDefaultMaxResults == 100

fetchMaxResults == IF fetchOptions.maxResults # 0 THEN fetchOptions.maxResults
                   ELSE FetchDefaultMaxResults

\* limit: Math.min(options.limit || 100, 100)
FetchPageLimit(limit) == Min(IF limit # 0 THEN limit ELSE MaxPageLimit, MaxPageLimit)

\* if (completedFilter !== undefined) tasks.filter(t => t.completed === completedFilter)
PassesCompleted(completedFilter, gid) ==
    completedFilter # "undefined" => (TaskCompleted(gid) <=> completedFilter = "true")

\* faulty variant: every membership must be in the section (every instead of some)
PassesSection_Mut(sectionFilter, gid) ==
    sectionFilter # "" => \A s \in TaskSections(gid) : s = sectionFilter

\* if (sectionFilter) tasks.filter(t => t.memberships?.some(m => m.section?.gid === sectionFilter))
PassesSection(sectionFilter, gid) ==
    sectionFilter # "" => \E s \in TaskSections(gid) : s = sectionFilter

\* faulty variant: assignee_gid is tested first, the unassigned flag only without it
PassesAssignee_Mut(unassignedFilter, assigneeFilter, gid) ==
    IF assigneeFilter # "undefined"
    THEN IF assigneeFilter = "null" THEN TaskAssignee(gid) = ""
         ELSE TaskAssignee(gid) = assigneeFilter
    ELSE IF unassignedFilter # "undefined"
    THEN IF unassignedFilter = "true" THEN TaskAssignee(gid) = ""
         ELSE TaskAssignee(gid) # ""
    ELSE TRUE

\* the unassigned / assignee_gid branch ("null" stands for null and for 'null')
PassesAssignee(unassignedFilter, assigneeFilter, gid) ==
    IF unassignedFilter # "undefined"
    THEN IF unassignedFilter = "true" THEN TaskAssignee(gid) = ""
         ELSE TaskAssignee(gid) # ""
    ELSE IF assigneeFilter # "undefined"
    THEN IF assigneeFilter = "null" THEN TaskAssignee(gid) = ""
         ELSE TaskAssignee(gid) = assigneeFilter
    ELSE TRUE

\* the three client-side filters applied to one page
ClientFilter(tasks) ==
    SelectSeq(tasks, LAMBDA gid :
        /\ PassesCompleted(fetchOptions.completed, gid)
        /\ PassesSection(fetchOptions.section_gid, gid)
        /\ PassesAssignee(fetchOptions.unassigned, fetchOptions.assignee_gid, gid))

\* faulty variant: the accumulator is returned without the slice
Capped_Mut(tasks, max) == tasks

\* allTasks.slice(0, maxResults)
Capped(tasks, max) == Slice(tasks, max)

\* faulty variant: the token is sent from the third call on only
WithOffset_Mut(q, off) == IF off # 0 /\ q.offset # 0 THEN [q EXCEPT !.offset = off] ELSE q

\* if (offset) apiOptions.offset = offset
WithOffset(q, off) == IF off # 0 THEN [q EXCEPT !.offset = off] ELSE q

\* lines 673-739: argument check and construction of the query
FetchStart ==
    /\ op = "fetch" /\ pc = "start"
    /\ IF ~fetchOptions.projectGid
       THEN /\ pc' = "failed"
            /\ error' = "projectGid is required"
            /\ UNCHANGED apiOptions
       ELSE /\ apiOptions' = [limit |-> FetchPageLimit(fetchOptions.limit), offset |-> 0]
            /\ pc' = "loop"
            /\ UNCHANGED error
    /\ UNCHANGED <<op, signalAborted, upstream, searchOptions, allTasks, requests,
                   pageLens, lastTimeMissing, result, fetchVars, callVars, processVars>>

\* lines 741-754: top of the do-while body up to the await
FetchLoopTop ==
    /\ op = "fetch" /\ pc = "loop"
    /\ IF Cancelled
       THEN /\ pc' = "failed"
            /\ error' = "Request cancelled"
            /\ UNCHANGED <<apiOptions, requests>>
       ELSE /\ apiOptions' = WithOffset(apiOptions, offset)
            /\ requests' = Append(requests, apiOptions')
            /\ pc' = "await"
            /\ UNCHANGED error
    /\ UNCHANGED <<op, signalAborted, upstream, searchOptions, allTasks, pageLens,
                   lastTimeMissing, result, fetchVars, callVars, processVars>>

\* lines 754-823: the response arrives; rest of the loop body, and the
\* return when the loop ends
FetchReceive ==
    /\ op = "fetch" /\ pc = "await"
    /\ LET data == ProjectPage(apiOptions)
           next == ProjectNextToken(apiOptions)
           acc == allTasks \o ClientFilter(data)
       IN  /\ pageLens' = Append(pageLens, Len(data))
           /\ tokens' = Append(tokens, next)
           /\ fetched' = fetched \o data
           /\ IF Len(data) = 0
              THEN /\ pc' = "done"
                   /\ result' = allTasks
                   /\ UNCHANGED <<allTasks, offset>>
              ELSE IF Len(acc) >= fetchMaxResults
              THEN /\ allTasks' = Capped(acc, fetchMaxResults)
                   /\ pc' = "done"
                   /\ result' = allTasks'
                   /\ UNCHANGED offset
              ELSE /\ allTasks' = acc
                   /\ offset' = next
                   /\ IF next = 0
                      THEN pc' = "done" /\ result' = acc
                      \* } while (allTasks.length < maxResults)
                      ELSE pc' = "loop" /\ UNCHANGED result
    /\ UNCHANGED <<op, signalAborted, upstream, searchOptions, apiOptions, requests,
                   lastTimeMissing, error, fetchOptions, callVars, processVars>>

----------------------------------------------------------------------------
(* Inputs *)

\* searchOptions.limit: unset, or a smaller page
PageLimits == {0, 60}

\* sizes of the upstream data set: around every multiple of the service's page
DataSizes == {0, 1} \cup {k * DefaultLimit + d : k \in 1..MaxPages, d \in {-1, 0, 1}}

SearchInputs ==
    [workspace : BOOLEAN,
     limit : PageLimits,
     maxResults : {0, 50, 150, 250},
     sort_by : {"none", "created_at", "modified_at", "likes"},
     sort_ascending : {"none", "true", "false"},
     text : BOOLEAN]

NoFetchOptions == [projectGid |-> FALSE, limit |-> 0, maxResults |-> 0,
                   completed |-> "undefined", section_gid |-> "",
                   assignee_gid |-> "undefined", unassigned |-> "undefined"]

NoQuery == [limit |-> 0, text |-> FALSE, sort_by |-> "none", sort_ascending |-> "none",
            before |-> <<>>, after |-> <<>>]

InitSearch ==
    /\ op = "search"
    /\ pc = "start"
    /\ signalAborted = FALSE
    /\ upstream \in [n : DataSizes, tie : 1..MaxTie, strict : BOOLEAN]
    /\ searchOptions \in SearchInputs
    /\ apiOptions = NoQuery
    /\ allTasks = <<>>
    /\ requests = <<>>
    /\ pageLens = <<>>
    /\ lastTimeMissing = FALSE
    /\ error = ""
    /\ result = <<>>
    /\ fetchOptions = NoFetchOptions
    /\ offset = 0
    /\ tokens = <<>>
    /\ fetched = <<>>
    /\ arg = <<>>
    /\ ret = <<>>
    /\ i = 0
    /\ readableNotes = <<>>
    /\ content = <<>>
    /\ ProcessIdle

NextSearch == SearchStart \/ SearchLoopTop \/ SearchReceive \/ Abort

SpecSearch == InitSearch /\ [][NextSearch]_vars

FetchInputs ==
    [projectGid : BOOLEAN,
     limit : {0, 3, 150},
     maxResults : {0, 2, 4},
     completed : {"undefined", "true", "false"},
     section_gid : {"", "S2"},
     assignee_gid : {"undefined", "null", "U1"},
     unassigned : {"undefined", "true", "false"}]

\* sizes of the project: small ones, and one that exceeds the default cap after
\* the completed filter has dropped every other task
ProjectSizes == 0..MaxProjectTasks \cup {2 * FetchDefaultMaxResults + 1}

NoSearchOptions == [workspace |-> FALSE, limit |-> 0, maxResults |-> 0,
                    sort_by |-> "none", sort_ascending |-> "none", text |-> FALSE]

InitFetch ==
    /\ op = "fetch"
    /\ pc = "start"
    /\ signalAborted = FALSE
    /\ upstream \in [n : ProjectSizes, eager : BOOLEAN]
    /\ fetchOptions \in FetchInputs
    /\ searchOptions = NoSearchOptions
    /\ apiOptions = [limit |-> 0, offset |-> 0]
    /\ allTasks = <<>>
    /\ requests = <<>>
    /\ pageLens = <<>>
    /\ lastTimeMissing = FALSE
    /\ error = ""
    /\ result = <<>>
    /\ offset = 0
    /\ tokens = <<>>
    /\ fetched = <<>>
    /\ arg = <<>>
    /\ ret = <<>>
    /\ i = 0
    /\ readableNotes = <<>>
    /\ content = <<>>
    /\ ProcessIdle

NextFetch == FetchStart \/ FetchLoopTop \/ FetchReceive \/ Abort

SpecFetch == InitFetch /\ [][NextFetch]_vars

\* the state of the two engines while neither of them runs
EnginesIdle ==
    /\ signalAborted = FALSE
    /\ upstream = [n |-> 0]
    /\ searchOptions = NoSearchOptions
    /\ fetchOptions = NoFetchOptions
    /\ apiOptions = NoQuery
    /\ allTasks = <<>>
    /\ requests = <<>>
    /\ pageLens = <<>>
    /\ lastTimeMissing = FALSE
    /\ error = ""
    /\ result = <<>>
    /\ offset = 0
    /\ tokens = <<>>
    /\ fetched = <<>>

engineVars == <<signalAborted, upstream, searchOptions, fetchOptions, apiOptions,
                allTasks, requests, pageLens, lastTimeMissing, error, result,
                offset, tokens, fetched>>

\* one invocation of either engine
Init == InitSearch \/ InitFetch

Next ==
    \/ SearchStart \/ SearchLoopTop \/ SearchReceive
    \/ FetchStart \/ FetchLoopTop \/ FetchReceive
    \/ Abort

Spec == Init /\ [][Next]_vars

----------------------------------------------------------------------------
(* Properties *)

\* s[1] + ... + s[k]
RECURSIVE SumTo(_, _)
SumTo(s, k) == IF k = 0 THEN 0 ELSE s[k] + SumTo(s, k - 1)

Distinct(s) == Cardinality(Range(s)) = Len(s)

\* the last item of the k-th response of a search
LastOfPage(k) == allTasks[SumTo(pageLens, k)]

\* C1: searchTasks never returns more than maxResults items; with no text
\* filter, full pages of 100 and maxResults = 250 it returns exactly 250 items
\* after exactly 3 upstream calls.
C1_CapExact ==
    (op = "search" /\ pc = "done") =>
        /\ Len(result) <= maxResults
        /\ (/\ ~searchOptions.text
            /\ maxResults = 250
            /\ ~lastTimeMissing
            /\ \A k \in DOMAIN pageLens : pageLens[k] = 100)
           => (Len(result) = 250 /\ Len(requests) = 3)

\* C2: with maxResults > 100 and an explicit sort_by other than created_at or
\* modified_at the search fails with an error and issues no upstream call.
C2_SortGuard ==
    (/\ op = "search"
     /\ maxResults > 100
     /\ searchOptions.sort_by \notin {"none", "created_at", "modified_at"})
    => /\ requests = <<>>
       /\ pc \in {"start", "failed"}
       /\ pc = "failed" => error # "" /\ result = <<>>
       /\ (pc = "failed" /\ searchOptions.workspace)
              => error = "Pagination beyond 100 results requires sort_by"

C2_Witness ==
    /\ op = "search" /\ pc = "failed"
    /\ searchOptions.workspace
    /\ searchOptions.maxResults = 150 /\ searchOptions.sort_by = "likes"
    /\ requests = <<>>

C4_Cancellation ==
    [][/\ (pc = "loop" /\ signalAborted)
          => /\ pc' = "failed"
             /\ error' = "Request cancelled"
             /\ requests' = requests
             /\ result' = <<>>
       /\ requests' # requests => (~signalAborted /\ pc = "loop")]_vars

\* cancelled between the first and the second page
C4_Witness ==
    /\ pc = "failed" /\ error = "Request cancelled"
    /\ Len(requests) = 1
    /\ allTasks # <<>>
    /\ result = <<>>

\* the time of an item on the sort field of the search
SortTime(gid) == TimeMs(apiOptions.sort_by, gid)

\* C5: every page after the first holds only items strictly after (ascending
\* upstream order) or strictly before (descending) the last item of the
\* previous page, and no item appears twice in the returned list.
C5_NoDuplicates ==
    (op = "search" /\ pc = "done") =>
        /\ Distinct(result)
        /\ \A k \in 2..Len(pageLens) :
              \A j \in (SumTo(pageLens, k - 1) + 1)..SumTo(pageLens, k) :
                 IF UpstreamAscending(requests[k])
                 THEN SortTime(allTasks[j]) > SortTime(LastOfPage(k - 1))
                 ELSE SortTime(allTasks[j]) < SortTime(LastOfPage(k - 1))

\* C6: with sort_by given and sort_ascending omitted the cursor runs
\* descending (a `.before` filter, 1 ms earlier), the direction in which the
\* upstream sorts such a request.
C6_DefaultDescending ==
    (/\ op = "search"
     /\ searchOptions.sort_by \in {"created_at", "modified_at"}
     /\ searchOptions.sort_ascending = "none")
    => \A k \in 2..Len(requests) :
          /\ ~UpstreamAscending(requests[k])
          /\ requests[k].after = <<>>
          /\ requests[k].before # <<>>
          /\ GetTime(requests[k].before[2])
                = GetTime(TimeOf(requests[k].sort_by, LastOfPage(k - 1))) - 1

\* the items received so far that the claim's filters let through: completed
\* equals the requested boolean, some membership is in the requested section,
\* and the assignee test (presence when the unassigned flag is given, else
\* absence for null, else identity)
Wanted(gid) ==
    /\ fetchOptions.completed = "true" => TaskCompleted(gid)
    /\ fetchOptions.completed = "false" => ~TaskCompleted(gid)
    /\ fetchOptions.section_gid # "" => fetchOptions.section_gid \in TaskSections(gid)
    /\ fetchOptions.unassigned = "true" => TaskAssignee(gid) = ""
    /\ fetchOptions.unassigned = "false" => TaskAssignee(gid) # ""
    /\ (fetchOptions.unassigned = "undefined" /\ fetchOptions.assignee_gid = "null")
          => TaskAssignee(gid) = ""
    /\ (fetchOptions.unassigned = "undefined" /\ fetchOptions.assignee_gid = "U1")
          => TaskAssignee(gid) = "U1"

WantedFetched == SelectSeq(fetched, Wanted)

\* the cap getTasksForProject was called with (100 when none is given)
RequestedCap == IF fetchOptions.maxResults = 0 THEN 100 ELSE fetchOptions.maxResults

\* C7: getTasksForProject returns at most maxResults items (default 100),
\* counted after filtering, and exactly maxResults once the filtered items of
\* the fetched pages reach the cap.
C7_FetchCap ==
    (op = "fetch" /\ pc = "done") =>
        /\ Len(result) <= RequestedCap
        /\ Len(WantedFetched) >= RequestedCap => Len(result) = RequestedCap

\* the default cap of 100 binds, on filtered items, after several pages
C7_Witness ==
    /\ op = "fetch" /\ pc = "done"
    /\ fetchOptions.maxResults = 0
    /\ fetchOptions.unassigned = "false"
    /\ Len(requests) >= 2
    /\ Len(WantedFetched) > 100
    /\ Len(result) = 100

\* C8: every returned item satisfies all active client-side filters, and every
\* item of a fetched page that satisfies them is returned, in upstream order,
\* unless the cap cuts it off.
C8_FilterPerPage ==
    (op = "fetch" /\ pc = "done") =>
        /\ \A k \in DOMAIN result : Wanted(result[k])
        /\ result = SubSeq(WantedFetched, 1, Len(result))
        /\ Len(result) < Len(WantedFetched) => Len(result) = RequestedCap

\* all three filters active, several pages, items dropped and items kept
C8_Witness ==
    /\ op = "fetch" /\ pc = "done"
    /\ fetchOptions.completed # "undefined"
    /\ fetchOptions.section_gid # ""
    /\ fetchOptions.assignee_gid = "U1" /\ fetchOptions.unassigned = "undefined"
    /\ Len(requests) >= 2
    /\ result # <<>>
    /\ Len(result) < Len(fetched)
    /\ Len(result) < RequestedCap

\* C9: given both assignee_gid and the unassigned flag, the flag decides and
\* assignee_gid is ignored: unassigned=true returns only items without an
\* assignee, unassigned=false only items with one (whoever it is).
C9_UnassignedPrecedence ==
    (/\ op = "fetch" /\ pc = "done"
     /\ fetchOptions.assignee_gid # "undefined"
     /\ fetchOptions.unassigned # "undefined")
    => LET keeps(gid) ==
               /\ fetchOptions.completed = "true" => TaskCompleted(gid)
               /\ fetchOptions.completed = "false" => ~TaskCompleted(gid)
               /\ fetchOptions.section_gid # ""
                     => fetchOptions.section_gid \in TaskSections(gid)
               /\ (fetchOptions.unassigned = "true") <=> (TaskAssignee(gid) = "")
           kept == SelectSeq(fetched, keeps)
       IN  /\ \A k \in DOMAIN result :
                (fetchOptions.unassigned = "true") <=> (TaskAssignee(result[k]) = "")
           /\ result = SubSeq(kept, 1, Min(Len(kept), RequestedCap))

\* assignee_gid = U1 with unassigned = false returns a task assigned to U2
C9_Witness ==
    /\ op = "fetch" /\ pc = "done"
    /\ fetchOptions.assignee_gid = "U1"
    /\ fetchOptions.unassigned = "false"
    /\ \E k \in DOMAIN result : TaskAssignee(result[k]) = "U2"

\* C10: the first call carries no offset, every later call carries the
\* next_page offset of the response just before it, and no call follows a
\* response without items or without a next-page token.
C10_OffsetChain ==
    op = "fetch" =>
        /\ Len(requests) >= 1 => requests[1].offset = 0
        /\ \A k \in 2..Len(requests) :
              /\ requests[k].offset = tokens[k - 1]
              /\ tokens[k - 1] # 0
              /\ pageLens[k - 1] # 0
        /\ \A k \in DOMAIN tokens :
              (tokens[k] = 0 \/ pageLens[k] = 0) => (Len(requests) = k /\ pc = "done")

\* three calls, the last one answered with no items
C10_Witness ==
    /\ op = "fetch" /\ pc = "done"
    /\ Len(requests) = 3
    /\ pageLens[3] = 0
    /\ requests[3].offset = tokens[2]
    /\ requests[2].offset # requests[3].offset

----------------------------------------------------------------------------
(* expandCustomFields (lib/tasks.js).                                      *)
(* A field path is the sequence of its dot-separated segments:             *)
(* 'custom_fields.123.display_value' is <<"custom_fields", "123",          *)
(* "display_value">>.                                                      *)

\* the segments that consist of decimal digits only (\d+)
NumericSegments == {"123", "7"}

\* field === 'custom_fields'
IsCustomFields(field) == field = <<"custom_fields">>

\* field.startsWith('custom_fields.') && /^custom_fields\.\d+\./.test(field)
IsGidSpecific(field) ==
    /\ Len(field) >= 2 /\ field[1] = "custom_fields"
    /\ Len(field) >= 3 /\ field[2] \in NumericSegments

\* 'custom_fields.gid', 'custom_fields.name', 'custom_fields.display_value'
CustomFieldPaths ==
    << <<"custom_fields", "gid">>, <<"custom_fields", "name">>,
       <<"custom_fields", "display_value">> >>

\* faulty variant: the three paths are pushed at every such entry
PushPaths_Mut(expanded, hasCustomFields) == expanded \o CustomFieldPaths

\* if (!hasCustomFields) { expanded.push(...); hasCustomFields = true; }
PushPaths(expanded, hasCustomFields) ==
    IF ~hasCustomFields THEN expanded \o CustomFieldPaths ELSE expanded

RECURSIVE ExpandFrom(_, _, _, _)
\* the for-of loop from the k-th field on
ExpandFrom(fields, k, expanded, hasCustomFields) ==
    IF k > Len(fields) THEN expanded
    ELSE LET field == fields[k]
         IN  IF IsCustomFields(field) \/ IsGidSpecific(field)
             THEN ExpandFrom(fields, k + 1, PushPaths(expanded, hasCustomFields), TRUE)
             ELSE ExpandFrom(fields, k + 1, Append(expanded, field), hasCustomFields)

expandCustomFields(fields) == ExpandFrom(fields, 1, <<>>, FALSE)

\* the field paths a caller puts into opt_fields
FieldInputs ==
    { <<"name">>, <<"assignee", "name">>, <<"custom_fields">>,
      <<"custom_fields", "123", "display_value">>, <<"custom_fields", "7", "">>,
      <<"custom_fields", "gid">>, <<"custom_fields", "123">>,
      <<"custom_fields", "x7", "name">> }

FieldLists == UNION {[1..n -> FieldInputs] : n \in 0..MaxFields}

InitExpand ==
    /\ op = "expandCustomFields"
    /\ pc = "start"
    /\ arg \in FieldLists
    /\ ret = <<>>
    /\ i = 0
    /\ readableNotes = <<>>
    /\ content = <<>>
    /\ ProcessIdle
    /\ EnginesIdle

\* one call of expandCustomFields(fields)
ExpandCall ==
    /\ op = "expandCustomFields" /\ pc = "start"
    /\ ret' = expandCustomFields(arg)
    /\ pc' = "done"
    /\ UNCHANGED <<op, arg, i, notesVars, engineVars, processVars>>

NextExpand == ExpandCall

SpecExpand == InitExpand /\ [][NextExpand]_vars

\* an entry the expansion replaces
Replaced(field) ==
    \/ field = <<"custom_fields">>
    \/ /\ Len(field) >= 3
       /\ field[1] = "custom_fields"
       /\ field[2] \in NumericSegments

\* the fields of s the expansion keeps, in their order
Kept(s) == LET Other(f) == ~Replaced(f) IN SelectSeq(s, Other)

\* C11: expandCustomFields replaces every 'custom_fields' entry and every
\* 'custom_fields.<numeric id>.<x>' entry by the three generic paths, emitted
\* once at the position of the first such entry, and keeps every other field
\* in its original order; ['name', 'custom_fields'] gives ['name',
\* 'custom_fields.gid', 'custom_fields.name', 'custom_fields.display_value'].
C11_ExpandOnce ==
    (op = "expandCustomFields" /\ pc = "done") =>
        LET hits == {k \in DOMAIN arg : Replaced(arg[k])}
        IN  /\ hits = {} => ret = arg
            /\ hits # {} =>
                 LET first == CHOOSE k \in hits : \A j \in hits : k <= j
                 IN  ret = Kept(SubSeq(arg, 1, first - 1)) \o CustomFieldPaths
                             \o Kept(SubSeq(arg, first + 1, Len(arg)))
            /\ arg = << <<"name">>, <<"custom_fields">> >> =>
                 ret = << <<"name">>, <<"custom_fields", "gid">>,
                          <<"custom_fields", "name">>,
                          <<"custom_fields", "display_value">> >>

\* 'custom_fields' is requested twice, with another field after the first
C11_Witness ==
    /\ op = "expandCustomFields" /\ pc = "done"
    /\ Len(arg) = 3
    /\ arg[1] = <<"custom_fields">>
    /\ arg[2] = <<"name">>
    /\ arg[3] = <<"custom_fields">>
    /\ Len(ret) = 4

----------------------------------------------------------------------------
(* sanitizeHtml (lib/markdown.js).                                         *)
(* A string is the sequence of its pieces.  The characters '<', '>', '/'   *)
(* and the whitespace characters are always pieces of their own; the       *)
(* other characters stand alone or are grouped into words.                 *)

RECURSIVE Concat(_)
\* the string a sequence of pieces spells
Concat(s) ==
    IF s = <<>> THEN ""
    ELSE IF Len(s) = 1 THEN s[1]
    ELSE Concat(SubSeq(s, 1, Len(s) \div 2)) \o Concat(SubSeq(s, Len(s) \div 2 + 1, Len(s)))

\* String.prototype.toLowerCase on the pieces that hold upper-case letters
UpperCase == [B |-> "b", R |-> "r", H3 |-> "h3", BODY |-> "body"]

ToLowerCase(a) == IF a \in DOMAIN UpperCase THEN UpperCase[a] ELSE a

\* \s
WhiteSpace == {" ", "\n", "\t"}

\* const asanaTags
asanaTags ==
    {"body", "strong", "em", "b", "i", "u", "ul", "ol", "li", "pre", "code", "a",
     "br", "hr", "h1", "h2", "table", "thead", "tbody", "tr", "th", "td"}

\* String.prototype.indexOf(a), counted from 1; 0 when a does not occur
IndexOf(s, a) ==
    IF \E k \in DOMAIN s : s[k] = a
    THEN CHOOSE k \in DOMAIN s : s[k] = a /\ \A j \in 1..(k - 1) : s[j] # a
    ELSE 0

\* faulty variant: the character after the tag name is not looked at
tagPattern_Mut(remaining) ==
    /\ Len(remaining) >= 1 /\ remaining[1] = "<"
    /\ \E slash \in {0, 1} :
          /\ slash = 1 => Len(remaining) >= 2 /\ remaining[2] = "/"
          /\ \E k \in 1..Len(remaining) :
                /\ Len(remaining) >= 1 + slash + k
                /\ Concat([j \in 1..k |-> ToLowerCase(remaining[1 + slash + j])])
                      \in asanaTags

\* remaining.match(tagPattern), tagPattern being
\* /^<(\/?)(?:body|strong|...|td)(?:\s|>|\/)/i
tagPattern(remaining) ==
    /\ Len(remaining) >= 1 /\ remaining[1] = "<"
    /\ \E slash \in {0, 1} :
          /\ slash = 1 => Len(remaining) >= 2 /\ remaining[2] = "/"
          /\ \E k \in 1..Len(remaining) :
                /\ Len(remaining) >= 2 + slash + k
                /\ Concat([j \in 1..k |-> ToLowerCase(remaining[1 + slash + j])])
                      \in asanaTags
                /\ remaining[2 + slash + k] \in WhiteSpace \cup {">", "/"}

\* '&lt;'
EscapedLt == <<"&", "l", "t", ";">>

\* faulty variant: the closing '>' of the tag is left out
CopyTag_Mut(remaining, closePos) == SubSeq(remaining, 1, closePos - 1)

\* remaining.substring(0, closePos + 1)
CopyTag(remaining, closePos) == SubSeq(remaining, 1, closePos)

\* faulty variant: an escaped '<' takes the following character with it
AfterEscape_Mut(pos) == pos + 2

\* i++ after result += '&lt;'
AfterEscape(pos) == pos + 1

\* one pass of the while body at position pos: what is appended to result,
\* and the next value of i
SanitizeAt(html, pos) ==
    IF html[pos] = "<"
    THEN LET remaining == SubSeq(html, pos, Len(html))
             match == tagPattern(remaining)
             closePos == IndexOf(remaining, ">")
         IN  IF closePos = 0
             THEN [out |-> EscapedLt, next |-> AfterEscape(pos)]
             ELSE IF match
             THEN [out |-> CopyTag(remaining, closePos), next |-> pos + closePos]
             ELSE [out |-> EscapedLt, next |-> AfterEscape(pos)]
    ELSE [out |-> <<html[pos]>>, next |-> pos + 1]

\* the passes of the while body from scan.i up to and including the one at
\* the next '<': the characters before it are appended one by one, then the
\* '<' is dealt with. scan holds result and i; nothing happens once
\* i has passed the end
SanitizeFrom(html, scan) ==
    LET lt == IF scan.i > Len(html) THEN 0
              ELSE IndexOf(SubSeq(html, scan.i, Len(html)), "<")
        at == scan.i + lt - 1
    IN  IF scan.i > Len(html) THEN scan
        ELSE IF lt = 0
        THEN [result |-> scan.result \o SubSeq(html, scan.i, Len(html)),
              i |-> Len(html) + 1]
        ELSE LET step == SanitizeAt(html, at)
             IN  [result |-> scan.result \o SubSeq(html, scan.i, at - 1) \o step.out,
                  i |-> step.next]

RECURSIVE SanitizeLoop(_, _, _)
\* while (i < html.length), as n rounds of SanitizeFrom, the first half of
\* them before the second
SanitizeLoop(html, scan, n) ==
    IF n = 0 THEN scan
    ELSE IF n = 1 THEN SanitizeFrom(html, scan)
    ELSE CHOOSE end \in
            {SanitizeLoop(html, half, n - n \div 2) :
                half \in {SanitizeLoop(html, scan, n \div 2)}} : TRUE

\* each round takes one '<' at least, so one round more than there are '<'
\* reaches the end
sanitizeHtml(html) ==
    SanitizeLoop(html, [result |-> <<>>, i |-> 1],
                 Cardinality({q \in DOMAIN html : html[q] = "<"}) + 1).result

\* the characters of the strings given to the sanitizer
HtmlChars == {"<", ">", "/", " ", "b", "r", "B"}

HtmlInputs == UNION {[1..n -> HtmlChars] : n \in 0..MaxHtmlLen}

InitSanitize ==
    /\ op = "sanitizeHtml"
    /\ pc = "scan"
    /\ arg \in HtmlInputs
    /\ ret = <<>>
    /\ i = 1
    /\ readableNotes = <<>>
    /\ content = <<>>
    /\ ProcessIdle
    /\ EnginesIdle

\* one pass of the while body
SanitizeStep ==
    /\ op = "sanitizeHtml" /\ pc = "scan"
    /\ i <= Len(arg)
    /\ LET step == SanitizeAt(arg, i)
       IN  /\ ret' = ret \o step.out
           /\ i' = step.next
    /\ UNCHANGED <<op, pc, arg, notesVars, engineVars, processVars>>

\* the loop ends: return result
SanitizeReturn ==
    /\ op = "sanitizeHtml" /\ pc = "scan"
    /\ i > Len(arg)
    /\ pc' = "done"
    /\ UNCHANGED <<op, arg, ret, i, notesVars, engineVars, processVars>>

NextSanitize == SanitizeStep \/ SanitizeReturn

SpecSanitize == InitSanitize /\ [][NextSanitize]_vars

\* position p of s holds a '<' that begins an opening or closing tag whose
\* name is allowed and is followed by whitespace, '>' or '/', and a '>'
\* occurs at or after p
BeginsAllowedTag(s, p) ==
    /\ s[p] = "<"
    /\ \E q \in p..Len(s) : s[q] = ">"
    /\ LET from == IF p < Len(s) /\ s[p + 1] = "/" THEN p + 2 ELSE p + 1
           ends == {q \in from..Len(s) : s[q] \in WhiteSpace \cup {">", "/"}}
       IN  /\ ends # {}
           /\ LET end == CHOOSE q \in ends : \A r \in ends : q <= r
              IN  Concat([j \in 1..(end - from) |-> ToLowerCase(s[from + j - 1])])
                     \in asanaTags

\* C12: sanitizeHtml is idempotent, sanitizeHtml(sanitizeHtml(s)) equals
\* sanitizeHtml(s) for every input, and a string that contains only allowed
\* tags is returned unchanged.
C12_Idempotent ==
    (op = "sanitizeHtml" /\ pc = "done") =>
        /\ ret = sanitizeHtml(arg)
        /\ sanitizeHtml(ret) = ret
        /\ (\A p \in DOMAIN arg : arg[p] = "<" => BeginsAllowedTag(arg, p)) => ret = arg

\* an input with a tag that is escaped and an allowed tag that is kept
C12_Witness ==
    /\ op = "sanitizeHtml" /\ pc = "done"
    /\ arg = <<"<", "r", "<", "b", ">">>
    /\ ret = EscapedLt \o <<"r", "<", "b", ">">>

RECURSIVE EscapesOnly(_, _)
\* out is in with some of its '<' replaced by '&lt;' and nothing else changed
EscapesOnly(in, out) ==
    IF in = <<>> THEN out = <<>>
    ELSE \/ /\ out # <<>>
            /\ Head(out) = Head(in)
            /\ EscapesOnly(Tail(in), Tail(out))
         \/ /\ Head(in) = "<"
            /\ Len(out) >= Len(EscapedLt)
            /\ SubSeq(out, 1, Len(EscapedLt)) = EscapedLt
            /\ EscapesOnly(Tail(in), SubSeq(out, Len(EscapedLt) + 1, Len(out)))

----------------------------------------------------------------------------
(* markdownToAsanaHtml (lib/markdown.js): the steps before marked.parse    *)

\* 'https://app.asana.com/0/profile/'
ProfileUrl == "https://app.asana.com/0/profile/"

\* the position of the first piece a at or after pos, 0 when there is none
IndexFrom(s, pos, a) ==
    LET hits == {q \in pos..Len(s) : s[q] = a}
    IN  IF hits = {} THEN 0 ELSE CHOOSE q \in hits : \A r \in hits : q <= r

\* the pieces lit stand at position pos of s
LitAt(s, pos, lit) ==
    /\ pos >= 1
    /\ pos + Len(lit) - 1 <= Len(s)
    /\ SubSeq(s, pos, pos + Len(lit) - 1) = lit

\* the number of consecutive pieces of the set cs that start at pos
RunLen(s, pos, cs) ==
    LET stops == {q \in pos..Len(s) : s[q] \notin cs}
    IN  IF stops = {} THEN Len(s) - pos + 1
        ELSE (CHOOSE q \in stops : \A r \in stops : q <= r) - pos

\* String.prototype.trim
Trim(s) ==
    LET inked == {q \in DOMAIN s : s[q] \notin WhiteSpace}
    IN  IF inked = {} THEN <<>>
        ELSE SubSeq(s, CHOOSE q \in inked : \A r \in inked : q <= r,
                       CHOOSE q \in inked : \A r \in inked : q >= r)

\* <name>
Tag(name) == <<"<", name, ">">>

\* </name>
CloseTag(name) == <<"<", "/", name, ">">>

\* `ASANA-MENTION-PLACEHOLDER-${asanaReplacements.length}-END`
Placeholder(n) == "ASANA-MENTION-PLACEHOLDER-" \o ToString(n) \o "-END"

\* `<a data-asana-gid="${gid}" data-asana-type="user">${name}</a>`
MentionElement(gid, name) ==
    <<"<", "a", " ", "data-asana-gid=\"", gid, "\"", " ",
      "data-asana-type=\"user\"", ">">> \o name \o CloseTag("a")

NoMention == [len |-> 0, gid |-> "", name |-> <<>>]

\* /\[([^\]]+)\]\(https:\/\/app\.asana\.com\/0\/profile\/(\d+)(?:[\/\?][^\)]*)?\)/
\* matched at position pos
ProfileLinkAt(s, pos) ==
    LET close == IndexFrom(s, pos + 1, "]")
    IN  IF /\ s[pos] = "["
           /\ close > pos + 1
           /\ LitAt(s, close + 1, <<"(", ProfileUrl>>)
           /\ close + 3 <= Len(s)
           /\ s[close + 3] \in NumericSegments
        THEN LET after == close + 4
                 end == IF after > Len(s) THEN 0
                        ELSE IF s[after] = ")" THEN after
                        ELSE IF s[after] \in {"/", "?"} THEN IndexFrom(s, after, ")")
                        ELSE 0
             IN  IF end = 0 THEN NoMention
                 ELSE [len |-> end - pos + 1, gid |-> s[close + 3],
                       name |-> SubSeq(s, pos + 1, close - 1)]
        ELSE NoMention

\* /https:\/\/app\.asana\.com\/0\/profile\/(\d+)(?:[\/\?]\S*)?(?![^\[]*\])/
\* matched at position pos
BareProfileAt(s, pos) ==
    IF /\ s[pos] = ProfileUrl
       /\ pos + 1 <= Len(s)
       /\ s[pos + 1] \in NumericSegments
    THEN LET tail == IF pos + 2 <= Len(s) /\ s[pos + 2] \in {"/", "?"}
                     THEN RunLen(s, pos + 2, {s[q] : q \in DOMAIN s} \ WhiteSpace)
                     ELSE 0
             end == pos + 1 + tail
             nextClose == IndexFrom(s, end + 1, "]")
             nextOpen == IndexFrom(s, end + 1, "[")
         IN  IF nextClose > 0 /\ (nextOpen = 0 \/ nextOpen > nextClose)
             THEN NoMention
             ELSE [len |-> end - pos + 1, gid |-> s[pos + 1], name |-> <<>>]
    ELSE NoMention

MentionAt(kind, s, pos) ==
    IF kind = "link" THEN ProfileLinkAt(s, pos) ELSE BareProfileAt(s, pos)

\* the callback of markdown.replace(regex, callback) at the next match at or
\* after pass.pos: the match gives way to a fresh placeholder, which is
\* recorded in asanaReplacements; with no match left the rest is copied
MentionNext(kind, s, pass) ==
    LET hits == {q \in pass.pos..Len(s) : MentionAt(kind, s, q).len > 0}
        at == CHOOSE q \in hits : \A r \in hits : q <= r
        m == MentionAt(kind, s, at)
        placeholder == Placeholder(Len(pass.asanaReplacements))
    IN  IF pass.done THEN pass
        ELSE IF hits = {}
        THEN [pass EXCEPT !.markdown = @ \o SubSeq(s, pass.pos, Len(s)), !.done = TRUE]
        ELSE [markdown |-> pass.markdown \o SubSeq(s, pass.pos, at - 1) \o <<placeholder>>,
              pos |-> at + m.len,
              asanaReplacements |->
                 Append(pass.asanaReplacements,
                    [placeholder |-> placeholder,
                     replacement |-> MentionElement(m.gid, m.name)]),
              done |-> FALSE]

RECURSIVE MentionLoop(_, _, _, _)
\* n matches replaced from left to right, the first half of them before the
\* second
MentionLoop(kind, s, pass, n) ==
    IF n = 0 THEN pass
    ELSE IF n = 1 THEN MentionNext(kind, s, pass)
    ELSE CHOOSE end \in
            {MentionLoop(kind, s, half, n - n \div 2) :
                half \in {MentionLoop(kind, s, pass, n \div 2)}} : TRUE

\* markdown.replace(regex, callback): every match is replaced; the result is
\* the new markdown and the asanaReplacements, to which the pass has added
MentionPass(kind, s, asanaReplacements) ==
    MentionLoop(kind, s,
                [markdown |-> <<>>, pos |-> 1,
                 asanaReplacements |-> asanaReplacements, done |-> FALSE],
                Cardinality({q \in DOMAIN s : MentionAt(kind, s, q).len > 0}) + 1)

\* '<!---LIST_SPLIT--->'
LIST_SPLIT_MARKER == <<"<", "!---LIST_SPLIT---", ">">>

\* a rewriting rule answers, for a position, how many pieces it matches
\* there (0: no match) and what replaces them
NoMatch == [len |-> 0, rep |-> <<>>]

\* /^([-*]\s+.*)$\n\n(?=[-*]\s+)/gm  ->  `$1\n${LIST_SPLIT_MARKER}\n`
ListSplitAt(s, pos) ==
    LET eol == IndexFrom(s, pos, "\n")
    IN  IF /\ pos = 1 \/ s[pos - 1] = "\n"
           /\ s[pos] \in {"-", "*"}
           /\ pos + 1 <= Len(s) /\ s[pos + 1] \in WhiteSpace \ {"\n"}
           /\ eol > 0
           /\ LitAt(s, eol, <<"\n", "\n">>)
           /\ eol + 3 <= Len(s)
           /\ s[eol + 2] \in {"-", "*"}
           /\ s[eol + 3] \in WhiteSpace
        THEN [len |-> eol + 2 - pos,
              rep |-> SubSeq(s, pos, eol - 1) \o <<"\n">> \o LIST_SPLIT_MARKER
                         \o <<"\n">>]
        ELSE NoMatch

----------------------------------------------------------------------------
(* marked.parse with { breaks: true, gfm: true } (the markdown library,    *)
(* environment): headings, paragraphs, bullet lists, fenced code, pipe     *)
(* tables, HTML blocks and inline HTML; text is entity-escaped.            *)

RECURSIVE FlattenRange(_, _, _)
\* the sequences ss[lo] .. ss[hi] one after the other
FlattenRange(ss, lo, hi) ==
    IF lo > hi THEN <<>>
    ELSE IF lo = hi THEN ss[lo]
    ELSE FlattenRange(ss, lo, (lo + hi) \div 2)
            \o FlattenRange(ss, (lo + hi) \div 2 + 1, hi)

Flatten(ss) == FlattenRange(ss, 1, Len(ss))

\* String.prototype.split(sep): the texts between the separators
Split(s, sep) ==
    LET seps == {q \in DOMAIN s : s[q] = sep}
        Cut(k) == IF k = 0 THEN 0
                  ELSE IF k > Cardinality(seps) THEN Len(s) + 1
                  ELSE CHOOSE q \in seps : Cardinality({r \in seps : r < q}) = k - 1
    IN  [k \in 1..(Cardinality(seps) + 1) |-> SubSeq(s, Cut(k - 1) + 1, Cut(k) - 1)]

\* Array.prototype.join(sep), sep being a sequence of pieces
Join(ss, sep) ==
    Flatten([k \in DOMAIN ss |-> IF k = 1 THEN ss[k] ELSE sep \o ss[k]])

HtmlTagNames ==
    asanaTags \cup {"h3", "h4", "h5", "h6", "p", "div", "span", "del", "blockquote"}

\* the block-level names among them: such a tag at the start of a line
\* begins an HTML block
HtmlBlockTags ==
    {"body", "h1", "h2", "h3", "h4", "h5", "h6", "ul", "ol", "li", "hr", "p", "div",
     "table", "thead", "tbody", "tr", "th", "td", "blockquote"}

HeadingMarks == <<"#", "##", "###", "####", "#####", "######">>

IsBlank(line) == \A k \in DOMAIN line : line[k] \in WhiteSpace

HeadingLevel(line) ==
    IF Len(line) >= 2 /\ line[2] = " " /\ \E n \in DOMAIN HeadingMarks : HeadingMarks[n] = line[1]
    THEN CHOOSE n \in DOMAIN HeadingMarks : HeadingMarks[n] = line[1]
    ELSE 0

IsListItem(line) == Len(line) >= 2 /\ line[1] \in {"-", "*"} /\ line[2] = " "

IsFence(line) == line = <<"~~~">>

StartsHtmlBlock(line) ==
    /\ Len(line) >= 2 /\ line[1] = "<"
    /\ \/ ToLowerCase(line[2]) \in HtmlBlockTags
       \/ line[2] = "/" /\ Len(line) >= 3 /\ ToLowerCase(line[3]) \in HtmlBlockTags
       \/ line[2] = LIST_SPLIT_MARKER[2]

IsTableRow(line) == Len(line) >= 1 /\ line[1] = "|"

IsDelimiterRow(line) ==
    /\ IsTableRow(line)
    /\ \A k \in DOMAIN line : line[k] \in {"|", "---", ":-:"}
    /\ \E k \in DOMAIN line : line[k] # "|"

\* a line that ends the paragraph before it
Interrupts(line) ==
    \/ IsBlank(line) \/ IsFence(line) \/ HeadingLevel(line) > 0
    \/ StartsHtmlBlock(line) \/ IsListItem(line)

\* the last line of the run of lines after line k that satisfy P
RunEnd(lines, k, P(_)) ==
    CHOOSE e \in k..Len(lines) :
        /\ \A j \in (k + 1)..e : P(lines[j])
        /\ e = Len(lines) \/ ~P(lines[e + 1])

\* a complete inline tag starts at pos: '<', an optional '/', a tag name,
\* and a '>' with no '<' before it
InlineTagEnd(s, pos) ==
    LET name == IF pos + 1 <= Len(s) /\ s[pos + 1] = "/" THEN pos + 2 ELSE pos + 1
        close == IndexFrom(s, pos + 1, ">")
        open == IndexFrom(s, pos + 1, "<")
    IN  IF /\ name <= Len(s) /\ ToLowerCase(s[name]) \in HtmlTagNames
           /\ close > name
           /\ open = 0 \/ open > close
        THEN close ELSE 0

\* the entity marked writes for a character of the text
Escaped(c) ==
    CASE c = "<" -> EscapedLt
      [] c = ">" -> <<"&gt;">>
      [] c = "&" -> <<"&amp;">>
      [] c = "\"" -> <<"&quot;">>
      [] c = "'" -> <<"&#39;">>
      [] OTHER -> <<c>>

EscapeAll(s) == Flatten([k \in DOMAIN s |-> Escaped(s[k])])

\* the inline content at scan.pos: a complete tag is kept, any other piece
\* is escaped
InlineNext(s, scan) ==
    IF scan.pos > Len(s) THEN scan
    ELSE IF s[scan.pos] = "<" /\ InlineTagEnd(s, scan.pos) > 0
    THEN [out |-> scan.out \o SubSeq(s, scan.pos, InlineTagEnd(s, scan.pos)),
          pos |-> InlineTagEnd(s, scan.pos) + 1]
    ELSE [out |-> scan.out \o Escaped(s[scan.pos]), pos |-> scan.pos + 1]

RECURSIVE InlineLoop(_, _, _)
InlineLoop(s, scan, n) ==
    IF n <= 0 THEN scan
    ELSE IF n = 1 THEN InlineNext(s, scan)
    ELSE CHOOSE end \in
            {InlineLoop(s, half, n - n \div 2) :
                half \in {InlineLoop(s, scan, n \div 2)}} : TRUE

\* the inline content from position pos on
Inline(s, pos) == InlineLoop(s, [out |-> <<>>, pos |-> pos], Len(s) - pos + 1).out

\* the cells of a table row: the texts between its bars
Cells(row) == LET parts == Split(row, "|") IN SubSeq(parts, 2, Len(parts) - 1)

\* <th> or <td>, with the alignment the delimiter row gives the column
CellTag(name, delimiter, col) ==
    IF col <= Len(Cells(delimiter)) /\ Cells(delimiter)[col] = <<":-:">>
    THEN <<"<", name, " ", "align=\"center\"", ">">>
    ELSE Tag(name)

RenderCells(name, cells, delimiter) ==
    Flatten([col \in DOMAIN cells |->
                CellTag(name, delimiter, col) \o Inline(cells[col], 1) \o CloseTag(name)
                   \o <<"\n">>])

RenderRow(name, row, delimiter) ==
    Tag("tr") \o <<"\n">> \o RenderCells(name, Cells(row), delimiter)
       \o CloseTag("tr") \o <<"\n">>

RenderRows(lines, k, last, delimiter) ==
    Flatten([j \in 1..(last - k + 1) |-> RenderRow("td", lines[k + j - 1], delimiter)])

RenderItems(lines, k, last) ==
    Flatten([j \in 1..(last - k + 1) |->
                Tag("li") \o Inline(lines[k + j - 1], 3) \o CloseTag("li") \o <<"\n">>])

RenderParagraph(lines, k, last) ==
    Flatten([j \in 1..(last - k + 1) |->
                Inline(lines[k + j - 1], 1)
                   \o (IF k + j - 1 < last THEN Tag("br") ELSE <<>>)])

\* the block that starts at line k: its HTML, and the line after it
Block(lines, k) ==
    LET line == lines[k]
        NotBlank(l) == ~IsBlank(l)
        NotFence(l) == ~IsFence(l)
        Continues(l) == ~Interrupts(l)
    IN  IF IsBlank(line) THEN [html |-> <<>>, next |-> k + 1]
        ELSE IF IsFence(line)
        THEN LET last == RunEnd(lines, k, NotFence)
             IN  [html |-> Tag("pre") \o Tag("code")
                      \o Join([j \in 1..(last - k) |-> EscapeAll(lines[k + j])], <<"\n">>)
                      \o <<"\n">> \o CloseTag("code") \o CloseTag("pre") \o <<"\n">>,
                  next |-> last + 2]
        ELSE IF HeadingLevel(line) > 0
        THEN LET h == "h" \o ToString(HeadingLevel(line))
             IN  [html |-> Tag(h) \o Inline(line, 3) \o CloseTag(h) \o <<"\n">>,
                  next |-> k + 1]
        ELSE IF StartsHtmlBlock(line)
        THEN LET last == IF line[2] = LIST_SPLIT_MARKER[2] THEN k
                         ELSE RunEnd(lines, k, NotBlank)
             IN  [html |-> Join(SubSeq(lines, k, last), <<"\n">>) \o <<"\n">>,
                  next |-> last + 1]
        ELSE IF IsListItem(line)
        THEN LET last == RunEnd(lines, k, IsListItem)
             IN  [html |-> Tag("ul") \o <<"\n">> \o RenderItems(lines, k, last)
                      \o CloseTag("ul") \o <<"\n">>,
                  next |-> last + 1]
        ELSE IF IsTableRow(line) /\ k < Len(lines) /\ IsDelimiterRow(lines[k + 1])
        THEN LET last == RunEnd(lines, k + 1, IsTableRow)
                 delimiter == lines[k + 1]
             IN  [html |-> Tag("table") \o <<"\n">> \o Tag("thead") \o <<"\n">>
                      \o RenderRow("th", line, delimiter) \o CloseTag("thead")
                      \o <<"\n">>
                      \o (IF last > k + 1
                          THEN Tag("tbody") \o RenderRows(lines, k + 2, last, delimiter)
                                  \o CloseTag("tbody")
                          ELSE <<>>)
                      \o CloseTag("table") \o <<"\n">>,
                  next |-> last + 1]
        ELSE LET last == RunEnd(lines, k, Continues)
             IN  [html |-> Tag("p") \o RenderParagraph(lines, k, last) \o CloseTag("p")
                      \o <<"\n">>,
                  next |-> last + 1]

\* the block at line scan.k is added to the HTML
ParseNext(lines, scan) ==
    IF scan.k > Len(lines) THEN scan
    ELSE LET block == Block(lines, scan.k)
         IN  [out |-> scan.out \o block.html, k |-> block.next]

RECURSIVE ParseBlocks(_, _, _)
\* n blocks from line scan.k on, the first half of them before the second
ParseBlocks(lines, scan, n) ==
    IF n = 0 THEN scan
    ELSE IF n = 1 THEN ParseNext(lines, scan)
    ELSE CHOOSE end \in
            {ParseBlocks(lines, half, n - n \div 2) :
                half \in {ParseBlocks(lines, scan, n \div 2)}} : TRUE

\* marked.parse(markdown)
MarkedParse(markdown) ==
    CHOOSE html \in
       {ParseBlocks(lines, [out |-> <<>>, k |-> 1], Len(lines)).out :
           lines \in {Split(markdown, "\n")}} : TRUE

----------------------------------------------------------------------------
(* String.prototype.replace with a global regular expression.  A rule is   *)
(* a record naming the expression; RuleAt gives its match at a position.   *)

\* a literal text (ci: compared without regard to case)
Lit(pat, rep) == [kind |-> "lit", pat |-> pat, rep |-> rep, ci |-> FALSE]

LitCI(pat, rep) == [kind |-> "lit", pat |-> pat, rep |-> rep, ci |-> TRUE]

\* before<name[^>]*> for a name of names: replaced by head, then the text
\* [^>]* matched when keep is set, then tail
Open(before, names, head, keep, tail) ==
    [kind |-> "open", before |-> before, names |-> names, head |-> head,
     keep |-> keep, tail |-> tail]

\* <name\s*\/?>, without regard to case
Void(name, rep) == [kind |-> "void", name |-> name, rep |-> rep]

\* (a)\s+(b) for a of as and b of bs (\s* when min = 0): the whitespace goes
Glue(as, bs, min) == [kind |-> "glue", as |-> as, bs |-> bs, min |-> min]

\* the pieces lit, which are in lower case, stand at position pos of s
\* in whatever case
LitAtCI(s, pos, lit) ==
    /\ pos >= 1
    /\ pos + Len(lit) - 1 <= Len(s)
    /\ \A k \in DOMAIN lit : ToLowerCase(s[pos + k - 1]) = lit[k]

LitRuleAt(rule, s, pos) ==
    IF \/ ~rule.ci /\ LitAt(s, pos, rule.pat)
       \/ rule.ci /\ LitAtCI(s, pos, rule.pat)
    THEN [len |-> Len(rule.pat), rep |-> rule.rep]
    ELSE NoMatch

OpenRuleAt(rule, s, pos) ==
    LET name == pos + Len(rule.before) + 1
        close == IndexFrom(s, name + 1, ">")
    IN  IF /\ LitAt(s, pos, rule.before \o <<"<">>)
           /\ name <= Len(s) /\ ToLowerCase(s[name]) \in rule.names
           /\ close > 0
        THEN [len |-> close - pos + 1,
              rep |-> rule.head
                        \o (IF rule.keep THEN SubSeq(s, name + 1, close - 1) ELSE <<>>)
                        \o rule.tail]
        ELSE NoMatch

VoidRuleAt(rule, s, pos) ==
    LET ws == RunLen(s, pos + 2, WhiteSpace)
        slash == IF LitAt(s, pos + 2 + ws, <<"/">>) THEN 1 ELSE 0
    IN  IF /\ s[pos] = "<"
           /\ pos + 1 <= Len(s) /\ ToLowerCase(s[pos + 1]) = rule.name
           /\ LitAt(s, pos + 2 + ws + slash, <<">">>)
        THEN [len |-> 3 + ws + slash, rep |-> rule.rep]
        ELSE NoMatch

GlueRuleAt(rule, s, pos) ==
    IF \E a \in rule.as : LitAt(s, pos, a)
    THEN LET a == CHOOSE x \in rule.as : LitAt(s, pos, x)
             ws == RunLen(s, pos + Len(a), WhiteSpace)
             at == pos + Len(a) + ws
         IN  IF ws >= rule.min /\ \E b \in rule.bs : LitAt(s, at, b)
             THEN LET b == CHOOSE x \in rule.bs : LitAt(s, at, x)
                  IN  [len |-> Len(a) + ws + Len(b), rep |-> a \o b]
             ELSE NoMatch
    ELSE NoMatch

\* /<ol start="\d+">/  ->  '<ol>'
OlStartAt(s, pos) ==
    IF /\ LitAt(s, pos, <<"<", "ol", " ", "start=\"">>)
       /\ pos + 4 <= Len(s) /\ s[pos + 4] \in NumericSegments
       /\ LitAt(s, pos + 5, <<"\"", ">">>)
    THEN [len |-> 7, rep |-> Tag("ol")]
    ELSE NoMatch

\* /(<\/h[12]>)\s*<p>([\s\S]*?)<\/p>/  ->  '$1$2\n'
HeaderParagraphAt(s, pos) ==
    IF \E h \in {"h1", "h2"} : LitAt(s, pos, CloseTag(h))
    THEN LET ws == RunLen(s, pos + 4, WhiteSpace)
             open == pos + 4 + ws
             closes == {q \in (open + 3)..Len(s) : LitAt(s, q, CloseTag("p"))}
         IN  IF LitAt(s, open, Tag("p")) /\ closes # {}
             THEN LET close == CHOOSE q \in closes : \A r \in closes : q <= r
                  IN  [len |-> close + 4 - pos,
                       rep |-> SubSeq(s, pos, pos + 3) \o SubSeq(s, open + 3, close - 1)
                                 \o <<"\n">>]
             ELSE NoMatch
    ELSE NoMatch

\* /\s*<!---LIST_SPLIT--->\s*/  ->  '\n'
MarkerAt(s, pos) ==
    LET before == RunLen(s, pos, WhiteSpace)
        at == pos + before
    IN  IF LitAt(s, at, LIST_SPLIT_MARKER)
        THEN [len |-> before + Len(LIST_SPLIT_MARKER)
                        + RunLen(s, at + Len(LIST_SPLIT_MARKER), WhiteSpace),
              rep |-> <<"\n">>]
        ELSE NoMatch

\* /\n\n+(<ul>|<ol>|<pre>)/  ->  '\n$1'
NewlinesBeforeBlockAt(s, pos) ==
    LET n == RunLen(s, pos, {"\n"})
    IN  IF n >= 2 /\ \E b \in {"ul", "ol", "pre"} : LitAt(s, pos + n, Tag(b))
        THEN [len |-> n + 3, rep |-> <<"\n">> \o SubSeq(s, pos + n, pos + n + 2)]
        ELSE NoMatch

\* /(<\/ul>|<\/ol>|<\/pre>)\n+/  ->  '$1\n'
NewlinesAfterBlockAt(s, pos) ==
    LET n == RunLen(s, pos + 4, {"\n"})
    IN  IF n >= 1 /\ \E b \in {"ul", "ol", "pre"} : LitAt(s, pos, CloseTag(b))
        THEN [len |-> 4 + n, rep |-> SubSeq(s, pos, pos + 3) \o <<"\n">>]
        ELSE NoMatch

\* /\n\n\n+/ (also /\n{3,}/)  ->  '\n\n'
ManyNewlinesAt(s, pos) ==
    LET n == RunLen(s, pos, {"\n"})
    IN  IF n >= 3 THEN [len |-> n, rep |-> <<"\n", "\n">>] ELSE NoMatch

RECURSIVE Rewrite(_, _, _, _, _)

RECURSIVE Replace(_, _)

\* .replace(/<th([^>]*)>/g, '<td$1>').replace(/<\/th>/g, '</td>')
ThToTd(tableHtml) ==
    Replace(Lit(CloseTag("th"), CloseTag("td")),
       Replace(Open(<<>>, {"th", "thead"}, <<"<", "td">>, TRUE, <<">">>), tableHtml))

\* faulty variant: the cells are left without the width attributes
CellWidths_Mut(tableHtml) == tableHtml

\* tableHtml.replace(/<td([^>]*)>/g, '<td width="120" data-cell-widths="120"$1>')
CellWidths(tableHtml) ==
    Replace(Open(<<>>, {"td"},
                 <<"<", "td", " ", "width=\"120\"", " ", "data-cell-widths=\"120\"">>,
                 TRUE, <<">">>),
            tableHtml)

\* the callback of html.replace(/<table>[\s\S]*?<\/table>/g, ...)
TableReshape(match) ==
    LET tableHtml == ThToTd(
            Replace(Lit(CloseTag("tbody"), <<>>),
               Replace(Lit(Tag("tbody"), <<>>),
                  Replace(Lit(CloseTag("thead"), <<>>),
                     Replace(Lit(Tag("thead"), <<>>), match)))))
    IN  CellWidths(tableHtml)

\* /<table>[\s\S]*?<\/table>/
TableAt(s, pos) ==
    LET closes == {q \in (pos + 3)..Len(s) : LitAt(s, q, CloseTag("table"))}
    IN  IF LitAt(s, pos, Tag("table")) /\ closes # {}
        THEN LET close == CHOOSE q \in closes : \A r \in closes : q <= r
             IN  [len |-> close + 4 - pos,
                  rep |-> TableReshape(SubSeq(s, pos, close + 3))]
        ELSE NoMatch

\* open(.*?)close, or open([\s\S]*?)close when dotAll is set: replaced by
\* pre, the text between the two (cleaned as clean says), and post
Wrap(open, close, pre, post, ci, dotAll, clean) ==
    [kind |-> "wrap", open |-> open, close |-> close, pre |-> pre, post |-> post,
     ci |-> ci, dotAll |-> dotAll, clean |-> clean]

\* the backquote character
Backquote == "BACKQUOTE"

\* /<[^>]+>/  ->  ''
AnyTagAt(s, pos) ==
    LET close == IndexFrom(s, pos + 1, ">")
    IN  IF s[pos] = "<" /\ close > pos + 1
        THEN [len |-> close - pos + 1, rep |-> <<>>]
        ELSE NoMatch

\* the callbacks of the blockquote and pre rules of displayTaskDetails
Clean(clean, inner) ==
    LET stripped == Replace([kind |-> "anyTag"], inner)
    IN  CASE clean = "none" -> inner
          [] clean = "strip" -> stripped
          [] clean = "quote" ->
               LET lines == Split(Trim(stripped), "\n")
                   Inked(line) == Trim(line) # <<>>
               IN  Join([k \in DOMAIN SelectSeq(lines, Inked) |->
                            Trim(SelectSeq(lines, Inked)[k])],
                        <<"\n", ">", " ">>)

WrapRuleAt(rule, s, pos) ==
    LET At(q, lit) == IF rule.ci THEN LitAtCI(s, q, lit) ELSE LitAt(s, q, lit)
        from == pos + Len(rule.open)
        closes == {q \in from..Len(s) : At(q, rule.close)}
    IN  IF At(pos, rule.open) /\ closes # {}
        THEN LET close == CHOOSE q \in closes : \A r \in closes : q <= r
             IN  IF rule.dotAll \/ \A q \in from..(close - 1) : s[q] # "\n"
                 THEN [len |-> close + Len(rule.close) - pos,
                       rep |-> rule.pre \o Clean(rule.clean, SubSeq(s, from, close - 1))
                                 \o rule.post]
                 ELSE NoMatch
        ELSE NoMatch

\* /<a[^>]*data-asana-type="user"[^>]*>(.*?)<\/a>/  ->  '@$1'
UserMentionAt(s, pos) ==
    LET end == IndexFrom(s, pos + 2, ">")
        closes == {q \in (end + 1)..Len(s) : LitAt(s, q, CloseTag("a"))}
    IN  IF /\ LitAt(s, pos, <<"<", "a">>)
           /\ end > 0
           /\ \E q \in (pos + 2)..(end - 1) : s[q] = "data-asana-type=\"user\""
           /\ closes # {}
        THEN LET close == CHOOSE q \in closes : \A r \in closes : q <= r
             IN  IF \A q \in (end + 1)..(close - 1) : s[q] # "\n"
                 THEN [len |-> close + 4 - pos,
                       rep |-> <<"@">> \o SubSeq(s, end + 1, close - 1)]
                 ELSE NoMatch
        ELSE NoMatch

\* /<a href="([^"]*)"[^>]*>(.*?)<\/a>/  ->  '[$2]($1)'
HrefLinkAt(s, pos) ==
    LET quote == IndexFrom(s, pos + 4, "\"")
        end == IndexFrom(s, quote + 1, ">")
        closes == {q \in (end + 1)..Len(s) : LitAt(s, q, CloseTag("a"))}
    IN  IF /\ LitAt(s, pos, <<"<", "a", " ", "href=\"">>)
           /\ quote > 0 /\ end > 0
           /\ closes # {}
        THEN LET close == CHOOSE q \in closes : \A r \in closes : q <= r
             IN  IF \A q \in (end + 1)..(close - 1) : s[q] # "\n"
                 THEN [len |-> close + 4 - pos,
                       rep |-> <<"[">> \o SubSeq(s, end + 1, close - 1) \o <<"]", "(">>
                                 \o SubSeq(s, pos + 4, quote - 1) \o <<")">>]
                 ELSE NoMatch
        ELSE NoMatch

\* /\|\s+\|/  ->  '| '
BarSpaceBarAt(s, pos) ==
    LET ws == RunLen(s, pos + 1, WhiteSpace)
    IN  IF s[pos] = "|" /\ ws >= 1 /\ LitAt(s, pos + 1 + ws, <<"|">>)
        THEN [len |-> ws + 2, rep |-> <<"|", " ">>]
        ELSE NoMatch

RuleAt(rule, s, pos) ==
    CASE rule.kind = "lit" -> LitRuleAt(rule, s, pos)
      [] rule.kind = "wrap" -> WrapRuleAt(rule, s, pos)
      [] rule.kind = "anyTag" -> AnyTagAt(s, pos)
      [] rule.kind = "userMention" -> UserMentionAt(s, pos)
      [] rule.kind = "hrefLink" -> HrefLinkAt(s, pos)
      [] rule.kind = "barSpaceBar" -> BarSpaceBarAt(s, pos)
      [] rule.kind = "open" -> OpenRuleAt(rule, s, pos)
      [] rule.kind = "void" -> VoidRuleAt(rule, s, pos)
      [] rule.kind = "glue" -> GlueRuleAt(rule, s, pos)
      [] rule.kind = "listSplit" -> ListSplitAt(s, pos)
      [] rule.kind = "olStart" -> OlStartAt(s, pos)
      [] rule.kind = "table" -> TableAt(s, pos)
      [] rule.kind = "headerParagraph" -> HeaderParagraphAt(s, pos)
      [] rule.kind = "marker" -> MarkerAt(s, pos)
      [] rule.kind = "newlinesBeforeBlock" -> NewlinesBeforeBlockAt(s, pos)
      [] rule.kind = "newlinesAfterBlock" -> NewlinesAfterBlockAt(s, pos)
      [] rule.kind = "manyNewlines" -> ManyNewlinesAt(s, pos)

\* the next match at or after scan.pos is replaced and the scan resumes after
\* it; with no match left the rest is copied. hits holds the positions at
\* which the rule matches
RewriteNext(rule, s, hits, scan) ==
    LET ahead == {q \in hits : q >= scan.pos}
        at == CHOOSE q \in ahead : \A r \in ahead : q <= r
        m == RuleAt(rule, s, at)
    IN  IF scan.done THEN scan
        ELSE IF ahead = {}
        THEN [out |-> scan.out \o SubSeq(s, scan.pos, Len(s)), pos |-> Len(s) + 1,
              done |-> TRUE]
        ELSE [out |-> scan.out \o SubSeq(s, scan.pos, at - 1) \o m.rep,
              pos |-> at + m.len,
              done |-> FALSE]

\* n matches replaced from left to right, the first half of them before the
\* second
Rewrite(rule, s, hits, scan, n) ==
    IF n = 0 THEN scan
    ELSE IF n = 1 THEN RewriteNext(rule, s, hits, scan)
    ELSE CHOOSE end \in
            {Rewrite(rule, s, hits, half, n - n \div 2) :
                half \in {Rewrite(rule, s, hits, scan, n \div 2)}} : TRUE

\* s.replace(rule, ...) with a global pattern
Replace(rule, s) ==
    CHOOSE out \in
       {Rewrite(rule, s, hits, [out |-> <<>>, pos |-> 1, done |-> FALSE],
                Cardinality(hits) + 1).out :
           hits \in {{q \in DOMAIN s : RuleAt(rule, s, q).len > 0}}} : TRUE

RECURSIVE ReplaceEach(_, _)
\* a sequence of rules applied one after the other
ReplaceEach(rules, s) ==
    IF rules = <<>> THEN s
    ELSE IF Len(rules) = 1 THEN Replace(rules[1], s)
    ELSE CHOOSE out \in
            {ReplaceEach(SubSeq(rules, Len(rules) \div 2 + 1, Len(rules)), half) :
                half \in {ReplaceEach(SubSeq(rules, 1, Len(rules) \div 2), s)}} : TRUE

\* String.prototype.startsWith for a text given as a string
StartsWith(s, text) ==
    \E n \in 0..Min(Len(s), Len(text)) : Concat(SubSeq(s, 1, n)) = text

\* String.prototype.endsWith
EndsWith(s, text) ==
    \E n \in 0..Min(Len(s), Len(text)) :
       Concat(SubSeq(s, Len(s) - n + 1, Len(s))) = text

----------------------------------------------------------------------------
(* markdownToAsanaHtml *)

\* faulty variant: the placeholders are left in the text
Restore_Mut(html, asanaReplacements, k) == html

RECURSIVE Restore(_, _, _)
\* asanaReplacements.forEach: each placeholder gives way to its replacement
Restore(html, asanaReplacements, k) ==
    IF k > Len(asanaReplacements) THEN html
    ELSE Restore(Replace(Lit(<<asanaReplacements[k].placeholder>>,
                             asanaReplacements[k].replacement), html),
                 asanaReplacements, k + 1)

\* faulty variant: the heading tags are left as marked wrote them
HeadingsToH2_Mut(html) == html

\* html.replace(/<h[3-6]>/g, '<h2>').replace(/<\/h[3-6]>/g, '</h2>')
HeadingsToH2(html) ==
    ReplaceEach(
       <<Lit(Tag("h3"), Tag("h2")), Lit(Tag("h4"), Tag("h2")),
         Lit(Tag("h5"), Tag("h2")), Lit(Tag("h6"), Tag("h2")),
         Lit(CloseTag("h3"), CloseTag("h2")), Lit(CloseTag("h4"), CloseTag("h2")),
         Lit(CloseTag("h5"), CloseTag("h2")), Lit(CloseTag("h6"), CloseTag("h2"))>>,
       html)

\* if (!html.startsWith('<body>')) html = `<body>${html}</body>`
WrapInBody(html) ==
    IF ~StartsWith(html, "<body>") THEN Tag("body") \o html \o CloseTag("body")
    ELSE html

\* the two passes that put placeholders in the place of mentions: the links
\* to a user profile first, the bare profile URLs after them
Mentions(text) ==
    CHOOSE passed \in
       {MentionPass("bare", links.markdown, links.asanaReplacements) :
           links \in {MentionPass("link", text, <<>>)}} : TRUE

\* marked.parse of the text with its list markers, and the placeholders
\* restored; passed is what the two mention passes left
Parsed(passed) ==
    Restore(MarkedParse(Replace([kind |-> "listSplit"], passed.markdown)),
            passed.asanaReplacements, 1)

\* the entities decoded, and pre, ol, table, br and hr put in Asana's form
Decoded(html) ==
    ReplaceEach(
       <<Lit(<<"&#39;">>, <<"'">>), Lit(<<"&quot;">>, <<"\"">>),
         Lit(<<"&#x27;">>, <<"'">>), Lit(<<"&#x2F;">>, <<"/">>),
         Open(Tag("pre"), {"code"}, Tag("pre"), FALSE, <<>>),
         Lit(CloseTag("code") \o CloseTag("pre"), CloseTag("pre")),
         [kind |-> "olStart"],
         [kind |-> "table"],
         Void("br", <<"\n">>),
         Lit(Tag("hr"), <<"<", "hr", "/", ">">>)>>,
       html)

\* the paragraph tags removed and the newlines between blocks reduced
Spaced(html) ==
    ReplaceEach(
       <<[kind |-> "headerParagraph"],
         Glue({CloseTag("h1"), CloseTag("h2")}, {Tag("h1"), Tag("h2")}, 1),
         Glue({CloseTag("h1"), CloseTag("h2")}, {Tag("ul"), Tag("ol")}, 1),
         Lit(Tag("p"), <<>>),
         Lit(CloseTag("p"), <<"\n", "\n">>),
         [kind |-> "marker"],
         [kind |-> "newlinesBeforeBlock"],
         [kind |-> "newlinesAfterBlock"],
         Glue({CloseTag("ul"), CloseTag("ol"), CloseTag("pre")},
              {Tag("h1"), Tag("h2")}, 1),
         [kind |-> "manyNewlines"]>>,
       html)

\* the text of a defined, non-empty argument: the statements of the function
\* in their order, each one applied to the value the one before it left
ConvertText(text) ==
    CHOOSE html \in
       {WrapInBody(sanitizeHtml(Trim(spaced))) : spaced \in
          {Spaced(levelled) : levelled \in
             {HeadingsToH2(decoded) : decoded \in
                {Decoded(parsed) : parsed \in
                   {Parsed(passed) : passed \in {Mentions(text)}}}}}} : TRUE

\* the argument is [defined |-> FALSE] for undefined, and otherwise carries
\* the text
markdownToAsanaHtml(markdown) ==
    IF ~markdown.defined \/ markdown.text = <<>> THEN <<>>
    ELSE ConvertText(markdown.text)

----------------------------------------------------------------------------
(* displayTaskDetails (lib/display.js): the conversion of html_notes to    *)
(* markdown                                                                *)

\* /<x>(.*?)<\/x>/g  ->  mark$1mark
Inline2(name, mark) == Wrap(Tag(name), CloseTag(name), mark, mark, FALSE, FALSE, "none")

\* task.html_notes.replace(...)...trim()
readableNotesOf(html_notes) ==
    Trim(ReplaceEach(
       <<Lit(Tag("body"), <<>>), Lit(CloseTag("body"), <<>>),
         Wrap(Tag("h1"), CloseTag("h1"), <<"\n", "#", " ">>, <<"\n">>, TRUE, FALSE, "none"),
         Wrap(Tag("h2"), CloseTag("h2"), <<"\n", "##", " ">>, <<"\n">>, TRUE, FALSE, "none"),
         Wrap(Tag("blockquote"), CloseTag("blockquote"), <<"\n", ">", " ">>, <<"\n">>,
              TRUE, TRUE, "quote"),
         LitCI(Tag("ul"), <<"\n">>), LitCI(CloseTag("ul"), <<"\n">>),
         LitCI(Tag("ol"), <<"\n">>), LitCI(CloseTag("ol"), <<"\n">>),
         LitCI(Tag("li"), <<"-", " ">>), LitCI(CloseTag("li"), <<"\n">>),
         Open(<<>>, {"table"}, <<"\n">>, FALSE, <<>>),
         LitCI(CloseTag("table"), <<"\n">>),
         LitCI(Tag("tr"), <<>>), LitCI(CloseTag("tr"), <<"\n">>),
         Open(<<>>, {"td"}, <<"|", " ">>, FALSE, <<>>),
         LitCI(CloseTag("td"), <<" ">>),
         Wrap(Tag("pre"), CloseTag("pre"),
              <<"\n", Backquote, Backquote, Backquote, "\n">>,
              <<"\n", Backquote, Backquote, Backquote, "\n">>, TRUE, TRUE, "strip"),
         Inline2("strong", <<"*", "*">>), Inline2("b", <<"*", "*">>),
         Inline2("em", <<"*">>), Inline2("i", <<"*">>),
         Inline2("u", <<"_">>), Inline2("code", <<Backquote>>),
         Inline2("del", <<"~", "~">>), Inline2("s", <<"~", "~">>),
         Inline2("strike", <<"~", "~">>),
         [kind |-> "userMention"],
         [kind |-> "hrefLink"],
         Void("hr", <<"\n", "---", "\n">>),
         [kind |-> "anyTag"],
         Lit(<<"&quot;">>, <<"\"">>), Lit(<<"&amp;">>, <<"&">>),
         Lit(EscapedLt, <<"<">>), Lit(<<"&gt;">>, <<">">>),
         Lit(<<"&nbsp;">>, <<" ">>),
         [kind |-> "manyNewlines"],
         [kind |-> "barSpaceBar"]>>,
       html_notes))

\* convertHtmlToMarkdown of lib/display: the conversion of stored html to
\* markdown for display and export, in which a user-mention element renders
\* as '@name'; it is the chain displayTaskDetails applies
convertHtmlToMarkdown(html) == readableNotesOf(html)

----------------------------------------------------------------------------
(* Notes written in markdown are converted and uploaded; the task is then  *)
(* displayed, or its notes are saved to a file.                            *)

\* the blocks a markdown text is made of
MarkdownBlocks ==
    { <<"one", "\n", "two">>,
      <<"it", "'", "s", " ", "<", " ", "b">>,
      <<" ">>,
      <<"#", " ", "Top">>,
      <<"###", " ", "Title">>,
      <<"######", " ", "Deep">>,
      <<"-", " ", "item">>,
      <<"Owner:", " ", "[", "Alice", "]", "(", ProfileUrl, "123", ")">>,
      <<ProfileUrl, "7">>,
      <<"|", "H", "|", "\n", "|", ":-:", "|", "\n",
        "|", "[", "Bob", "]", "(", ProfileUrl, "7", ")", "|">>,
      <<"~~~", "\n", "[", "Al", "]", "(", ProfileUrl, "7", ")", "\n", "~~~">>,
      <<"<", "body", ">", "x">>,
      <<"<", "h3", " ", "class=\"x\"", ">", "T", "<", "/", "h3", ">">>,
      <<"<", "H3", ">", "U", "<", "/", "H3", ">">> }

\* the texts: up to MaxBlocks blocks with a blank line between them
MarkdownTexts ==
    {Join(blocks, <<"\n", "\n">>) :
        blocks \in UNION {[1..n -> MarkdownBlocks] : n \in 0..MaxBlocks}}

MarkdownInputs ==
    {[defined |-> FALSE, text |-> <<>>]}
       \cup {[defined |-> TRUE, text |-> t] : t \in MarkdownTexts}

InitNotes ==
    /\ op = "notes"
    /\ pc = "start"
    /\ arg \in MarkdownInputs
    /\ ret = <<>>
    /\ i = 0
    /\ readableNotes = <<>>
    /\ content = <<>>
    /\ ProcessIdle
    /\ EnginesIdle

\* html_notes = markdownToAsanaHtml(markdown)
Convert ==
    /\ op = "notes" /\ pc = "start"
    /\ ret' = markdownToAsanaHtml(arg)
    /\ pc' = "converted"
    /\ UNCHANGED <<op, arg, i, notesVars, engineVars, processVars>>

\* displayTaskDetails of the task that holds these notes, in the default
\* format: } else if (task.html_notes) {
Display ==
    /\ op = "notes" /\ pc = "converted"
    /\ ret # <<>>
    /\ readableNotes' = readableNotesOf(ret)
    /\ pc' = "displayed"
    /\ UNCHANGED <<op, arg, ret, i, content, engineVars, processVars>>

\* case 'save_task_notes' with the default format, for the task that holds
\* these notes: } else if (task.html_notes) {
\*     content = convertHtmlToMarkdown(task.html_notes)
SaveNotes ==
    /\ op = "notes" /\ pc = "converted"
    /\ ret # <<>>
    /\ content' = convertHtmlToMarkdown(ret)
    /\ pc' = "saved"
    /\ UNCHANGED <<op, arg, ret, i, readableNotes, engineVars, processVars>>

NextNotes == Convert \/ Display \/ SaveNotes

SpecNotes == InitNotes /\ [][NextNotes]_vars

----------------------------------------------------------------------------
(* The claims about the conversion of notes *)

\* C15: markdownToAsanaHtml returns '' for an empty or undefined argument;
\* any other result starts with '<body>' and ends with '</body>'.
C15_BodyWrapped ==
    (op = "notes" /\ pc # "start") =>
        IF ~arg.defined \/ arg.text = <<>>
        THEN ret = <<>>
        ELSE StartsWith(ret, "<body>") /\ EndsWith(ret, "</body>")

\* the pieces sub stand somewhere in s
Contains(s, sub) == \E q \in 1..(Len(s) - Len(sub) + 1) : LitAt(s, q, sub)

\* position q of a markdown text lies inside a fenced code block
InFence(s, q) == Cardinality({k \in 1..(q - 1) : IsFence(<<s[k]>>)}) % 2 = 1

\* the mention links of a markdown text: links to a user profile that stand
\* outside the fenced code blocks
MentionLinks(s) ==
    {ProfileLinkAt(s, q) : q \in {r \in DOMAIN s : ProfileLinkAt(s, r).len > 0 /\ ~InFence(s, r)}}

MentionLink(gid, name) == <<"[">> \o name \o <<"]", "(", ProfileUrl, gid, ")">>

\* C17: the notes saved as markdown hold every user mention in the form
\* [Name](https://app.asana.com/0/profile/<gid>), and converting the saved
\* markdown again gives a user-mention element with the same gid.
C17_ExportReversible ==
    (op = "notes" /\ pc = "saved") =>
        \A m \in MentionLinks(arg.text) :
           /\ Contains(content, MentionLink(m.gid, m.name))
           /\ Contains(markdownToAsanaHtml([defined |-> TRUE, text |-> content]),
                       MentionElement(m.gid, m.name))

\* a tag, opening or closing, whose name is one of names stands at q
TagAt(s, q, names) ==
    /\ s[q] = "<"
    /\ \/ q + 1 <= Len(s) /\ ToLowerCase(s[q + 1]) \in names
       \/ q + 2 <= Len(s) /\ s[q + 1] = "/" /\ ToLowerCase(s[q + 2]) \in names

\* the markdown headings of level 3 to 6 of a text
DeepHeadings(s) ==
    {line \in {Split(s, "\n")[k] : k \in DOMAIN Split(s, "\n")} :
        HeadingLevel(line) \in 3..6}

HasTable(s) ==
    LET lines == Split(s, "\n")
    IN  \E k \in DOMAIN lines :
           k > 1 /\ IsDelimiterRow(lines[k]) /\ IsTableRow(lines[k - 1])

\* <td width="120" data-cell-widths="120"
WideCell == <<"<", "td", " ", "width=\"120\"", " ", "data-cell-widths=\"120\"">>

\* C19: for a markdown table the output of markdownToAsanaHtml holds no
\* thead, tbody or th tag, and every td tag carries width="120"
\* data-cell-widths="120".
C19_TableShape ==
    (op = "notes" /\ pc # "start" /\ arg.defined /\ HasTable(arg.text)) =>
        \A q \in DOMAIN ret :
           /\ ~TagAt(ret, q, {"thead", "tbody", "th"})
           /\ LitAt(ret, q, <<"<", "td">>) => LitAt(ret, q, WideCell)

C19_Witness ==
    /\ op = "notes" /\ pc = "converted"
    /\ HasTable(arg.text)
    /\ Contains(ret, Tag("table"))
    /\ Contains(ret, WideCell \o <<" ", "align=\"center\"", ">", "H">> \o CloseTag("td"))

----------------------------------------------------------------------------
(* createTask, updateTask and addTaskComment: one upstream call each, made *)
(* inside try, with a catch block that logs and throws.                    *)

\* the pieces that hold one of the characters of /[*_#\[\]`]/
MarkdownMarks ==
    {"*", "_", "[", "]", "~~~", Backquote} \cup {HeadingMarks[n] : n \in DOMAIN HeadingMarks}

\* an absent field and an empty string are both falsy
Truthy(obj, field) == field \in DOMAIN obj /\ obj[field] # <<>>

\* prepareTaskUpdates (lib/markdown.js)
prepareTaskUpdates(updates) ==
    IF /\ Truthy(updates, "notes")
       /\ \E k \in DOMAIN updates.notes : updates.notes[k] \in MarkdownMarks
    THEN [f \in (DOMAIN updates \ {"notes"}) \cup {"html_notes"} |->
             IF f = "html_notes"
             THEN markdownToAsanaHtml([defined |-> TRUE, text |-> updates.notes])
             ELSE updates[f]]
    ELSE updates

\* obj without the field old and with the field new set to value
Renamed(obj, old, new, value) ==
    [f \in (DOMAIN obj \ {old}) \cup {new} |-> IF f = new THEN value ELSE obj[f]]

\* if (converted.html_notes) { data[new] = converted.html_notes; delete data[old] }
WithHtml(data, old, new, converted) ==
    IF Truthy(converted, "html_notes")
    THEN Renamed(data, old, new, converted.html_notes)
    ELSE data

\* the data createTask sends
processedTaskData(taskData, options) ==
    IF options.convertMarkdown = "true" /\ Truthy(taskData, "notes")
    THEN WithHtml(taskData, "notes", "html_notes",
                  prepareTaskUpdates([notes |-> taskData.notes]))
    ELSE taskData

\* the data updateTask sends
processedUpdates(updates, options) ==
    IF options.convertMarkdown = "true" /\ Truthy(updates, "notes")
    THEN prepareTaskUpdates(updates)
    ELSE updates

\* the data addTaskComment sends; const { convertMarkdown = true } = options
processedData(commentData, options) ==
    IF Truthy(commentData, "text") /\ options.convertMarkdown # "false"
    THEN WithHtml(commentData, "text", "html_text",
                  prepareTaskUpdates([notes |-> commentData.text]))
    ELSE commentData

WriteOps == {"createTask", "updateTask", "addTaskComment"}

\* the texts of the notes or of the comment
OpTexts ==
    { <<"Hello">>,
      <<"#", " ", "Top">>,
      <<"it", "'", "s", " ", "<", " ", "b">>,
      <<"[", "Alice", "]", "(", ProfileUrl, "123", ")">> }

\* the data argument: the text under the operation's field, or a name only
OpData(operation) ==
    LET field == IF operation = "addTaskComment" THEN "text" ELSE "notes"
    IN  {[name |-> "n"]} \cup {[f \in {field} |-> t] : t \in OpTexts}

\* the messages of the errors the upstream call may reject with
UpstreamMessages == {"Not Found", "XML is invalid"}

\* the upstream service either answers the call or rejects it with an error
UpstreamOutcomes ==
    {[fails |-> FALSE, message |-> ""]}
       \cup {[fails |-> TRUE, message |-> m] : m \in UpstreamMessages}

InitOps ==
    /\ op \in WriteOps
    /\ pc = "start"
    /\ arg \in {[data |-> d, options |-> o] :
                  d \in OpData(op),
                  o \in {[convertMarkdown |-> c] : c \in {"undefined", "true", "false"}}}
    /\ upstream \in UpstreamOutcomes
    /\ requests = <<>>
    /\ error = ""
    /\ ret = <<>>
    /\ i = 0
    /\ readableNotes = <<>>
    /\ content = <<>>
    /\ ProcessIdle
    /\ signalAborted = FALSE
    /\ searchOptions = NoSearchOptions
    /\ fetchOptions = NoFetchOptions
    /\ apiOptions = NoQuery
    /\ allTasks = <<>>
    /\ pageLens = <<>>
    /\ lastTimeMissing = FALSE
    /\ result = <<>>
    /\ offset = 0
    /\ tokens = <<>>
    /\ fetched = <<>>

\* the variables the write operations leave alone
idleVars == <<op, arg, upstream, i, notesVars, processVars, signalAborted, searchOptions,
              fetchOptions, apiOptions, allTasks, pageLens, lastTimeMissing,
              result, offset, tokens, fetched>>

\* the body of try up to the await: the data is prepared and the one
\* upstream call is issued
OpCall ==
    /\ op \in WriteOps /\ pc = "start"
    /\ requests' = Append(requests,
          CASE op = "createTask" -> processedTaskData(arg.data, arg.options)
            [] op = "updateTask" -> processedUpdates(arg.data, arg.options)
            [] op = "addTaskComment" -> processedData(arg.data, arg.options))
    /\ pc' = "awaiting"
    /\ UNCHANGED <<error, ret, idleVars>>

\* the call is answered: return result.data
OpReturn ==
    /\ op \in WriteOps /\ pc = "awaiting"
    /\ ~upstream.fails
    /\ ret' = <<requests[Len(requests)]>>
    /\ pc' = "done"
    /\ UNCHANGED <<error, requests, idleVars>>

\* the call is rejected: the catch block runs. createTask and updateTask
\* declare their data before try, log, and throw the error they caught.
\* addTaskComment declares const processedData inside the try block, so the
\* condition processedData.html_text of its catch block refers to a name
\* that is not in scope: evaluating it throws a ReferenceError, which leaves
\* the function in place of the error caught.
OpCatch ==
    /\ op \in WriteOps /\ pc = "awaiting"
    /\ upstream.fails
    /\ error' = IF op = "addTaskComment" THEN "processedData is not defined"
                ELSE upstream.message
    /\ pc' = "thrown"
    /\ UNCHANGED <<ret, requests, idleVars>>

NextOps == OpCall \/ OpReturn \/ OpCatch

SpecOps == InitOps /\ [][NextOps]_vars

\* C20: when the upstream call fails, the operation throws to its caller the
\* error it received from that call, and it has issued no further call.
C20_RethrowsSame ==
    (op \in WriteOps /\ pc = "thrown") =>
        /\ error = upstream.message
        /\ Len(requests) = 1

----------------------------------------------------------------------------
(* Pagination stops of searchTasks *)

\* C26: when the last item of a full page lacks the time field, the search
\* ends without an error and issues no further call; what it returns is
\* everything received, that page included (under the text filter of the
\* request, as for every return).
C26_MissingTimeStops ==
    (op = "search" /\ lastTimeMissing) =>
        /\ pc = "done"
        /\ error = ""
        /\ Len(requests) = Len(pageLens)
        /\ pageLens[Len(pageLens)] = apiOptions.limit
        /\ Len(allTasks) = SumTo(pageLens, Len(pageLens))
        /\ SubSeq(allTasks, Len(allTasks) - apiOptions.limit + 1, Len(allTasks))
              = UpstreamSearch(apiOptions)
        /\ result = TextFiltered(allTasks)

\* the second page, a full one, ends with an item that has no time field
C26_Witness ==
    /\ op = "search" /\ lastTimeMissing
    /\ pc = "done"
    /\ Len(requests) = 2
    /\ Len(allTasks) = 2 * DefaultLimit
    /\ result = allTasks

\* an item the request asks for: with a text, one whose name contains it
Matching(gid) == searchOptions.text => NameIncludesText(gid)

\* the item has the time, to the millisecond, of the last item of a full page
TiedToBoundary(gid) ==
    \E k \in DOMAIN pageLens :
        /\ pageLens[k] = requests[k].limit
        /\ SortTime(gid) = SortTime(LastOfPage(k))

\* a search that paginated by time has ended below the cap, every item
\* received having had its time field
EndedBelowCap ==
    /\ op = "search" /\ pc = "done"
    /\ useTimePagination
    /\ ~lastTimeMissing
    /\ Len(allTasks) < maxResults

\* C27: when a search that paginates by time ends below the cap, every item
\* the request asks for that is not in the result has the timestamp of the
\* last item of some full page that was fetched.
C27_OnlyTiesMissing ==
    EndedBelowCap =>
        \A gid \in 1..upstream.n :
            (Matching(gid) /\ gid \notin Range(result)) => TiedToBoundary(gid)

----------------------------------------------------------------------------
(* searchTasks against an upstream that answers with any list of items *)

\* the lists such an upstream may answer a request of the given limit with:
\* empty, short, full, longer than asked for, in either order
AnyPages(limit) ==
    {Upto(1, len) : len \in {0, 1, limit - 1, limit, limit + 1}}
       \cup {Downto(limit, 1)}

SearchReceiveAny == \E data \in AnyPages(apiOptions.limit) : SearchReceived(data)

InitSearchAny ==
    /\ InitSearch
    /\ upstream = [n |-> 1, tie |-> 1, strict |-> FALSE]

NextSearchAny == SearchStart \/ SearchLoopTop \/ SearchReceiveAny \/ Abort

\* an awaited call is answered and the function runs on: the steps of the
\* search are taken as long as one is possible
SpecSearchAny ==
    InitSearchAny /\ [][NextSearchAny]_vars
       /\ WF_vars(SearchStart \/ SearchLoopTop \/ SearchReceiveAny)

\* what the request asks for: the cap and the page size, with their defaults
RequestedMax == IF searchOptions.maxResults = 0 THEN 100 ELSE searchOptions.maxResults
PageSize == IF searchOptions.limit = 0 THEN 100 ELSE searchOptions.limit

\* ceil(maxResults / pageSize)
CallBound == (RequestedMax + PageSize - 1) \div PageSize

\* the calls of a search are issued one after another, and there are at most
\* CallBound of them
CallsInTurn ==
    /\ Len(requests) <= CallBound
    /\ Len(requests) - Len(pageLens) \in {0, 1}
    /\ Len(requests) > Len(pageLens) <=> pc = "await"
    /\ (pc = "done" /\ RequestedMax <= PageSize) => Len(requests) = 1

\* C30: whatever lists the upstream answers with, a search issues at most
\* ceil(maxResults / pageSize) calls, each after the answer to the one
\* before, exactly one when it completes with maxResults <= pageSize, and it
\* comes to an end.
C30_BoundedCalls == [](op = "search" => CallsInTurn) /\ <>(pc \in {"done", "failed"})

\* a cap of 250 over pages of 60: ended after the fifth call
C30_Witness ==
    /\ op = "search" /\ pc = "done"
    /\ CallBound = 5
    /\ Len(requests) = 5
    /\ pageLens = <<60, 60, 60, 60, 61>>

----------------------------------------------------------------------------
(* The '<' characters sanitizeHtml lets through *)

\* C29: in what sanitizeHtml returns, every '<' begins an opening or closing
\* tag with an allowed name, the '<' inside the text copied for an allowed
\* tag included.
C29_EveryLtBeginsTag ==
    (op = "sanitizeHtml" /\ pc = "done") =>
        \A p \in DOMAIN ret : ret[p] = "<" => BeginsAllowedTag(ret, p)

----------------------------------------------------------------------------
(* The tool-call handler of the MCP server (mcp-server.js).                *)
(* A JSON value of the arguments is a record with its type: a string with  *)
(* its characters (or pieces), an array with its length; a field that is   *)
(* not given is undefined.  Several calls may be in progress: each one is  *)
(* an async function that runs from one await to the next.                 *)

Undefined == [type |-> "undefined"]
Str(chars) == [type |-> "string", chars |-> chars]
\* an array of the given number of items
List(length) == [type |-> "array", length |-> length]

\* args[f]
Field(args, f) == IF f \in DOMAIN args THEN args[f] ELSE Undefined

\* !value
Falsy(value) == value = Undefined \/ value = Str(<<>>)

\* the text of a value inside a template literal
Shown(value) == IF value.type = "string" THEN Concat(value.chars) ELSE "[object]"

DigitChars == <<"0", "1", "2", "3", "4", "5", "6", "7", "8", "9">>

\* \d
IsDigit(c) == \E k \in DOMAIN DigitChars : DigitChars[k] = c

\* the number a run of digits spells
RECURSIVE NumberOf(_)
NumberOf(chars) ==
    IF chars = <<>> THEN 0
    ELSE 10 * NumberOf(SubSeq(chars, 1, Len(chars) - 1))
            + (CHOOSE k \in DOMAIN DigitChars : DigitChars[k] = chars[Len(chars)]) - 1

\* /^\d{4}-\d{2}-\d{2}$/.test(dateString)
DateRegex(chars) ==
    /\ Len(chars) = 10
    /\ \A k \in {1, 2, 3, 4, 6, 7, 9, 10} : IsDigit(chars[k])
    /\ chars[5] = "-" /\ chars[8] = "-"

\* !isNaN(new Date(dateString).getTime()) for a string the pattern accepts:
\* the date parser wants a month 01..12 and a day 01..31
DateParses(chars) ==
    /\ NumberOf(SubSeq(chars, 6, 7)) \in 1..12
    /\ NumberOf(SubSeq(chars, 9, 10)) \in 1..31

\* the validation helpers: the message of the error thrown, "" when the
\* helper returns true
validateDateFormat(dateString, fieldName) ==
    IF Falsy(dateString) THEN ""
    ELSE IF dateString.type # "string" \/ ~DateRegex(dateString.chars)
    THEN "Invalid " \o fieldName \o " format. Expected YYYY-MM-DD, got: "
            \o Shown(dateString)
    ELSE IF ~DateParses(dateString.chars)
    THEN "Invalid " \o fieldName \o " date: " \o Shown(dateString)
    ELSE ""

validateRequired(value, fieldName) ==
    IF Falsy(value) THEN "Missing required parameter: " \o fieldName ELSE ""

\* /^\d+$/.test(gid)
IsNumeric(chars) == chars # <<>> /\ \A k \in DOMAIN chars : IsDigit(chars[k])

validateGid(gid, fieldName) ==
    IF Falsy(gid) THEN ""
    ELSE IF gid = Str(<<"m", "e">>) THEN ""
    ELSE IF gid.type # "string" \/ ~IsNumeric(gid.chars)
    THEN "Invalid " \o fieldName \o " format. Expected numeric GID, got: " \o Shown(gid)
    ELSE ""

\* the message of the first check that throws, "" when none does
FirstThrown(messages) ==
    LET thrown == {k \in DOMAIN messages : messages[k] # ""}
    IN  IF thrown = {} THEN ""
        ELSE messages[CHOOSE k \in thrown : \A j \in thrown : k <= j]

\* lines 485-491, before try: a long notes or text value is cut for the log
\* with its substring method, which only a string has
ThrowsBeforeTry(args) ==
    \E f \in {"notes", "text"} :
        /\ Field(args, f).type = "array"
        /\ Field(args, f).length > 100

\* the files fs.readFileSync finds, with their content
Files == [f \in {<<"notes.md">>} |-> <<"#", " ", "Top">>]

\* args.projects.split(',').map(p => p.trim())
projectGids(args) ==
    LET parts == Split(args.projects.chars, ",")
    IN  [k \in DOMAIN parts |-> Trim(parts[k])]

\* case 'create_task', lines 764-773: the checks made first
CreateTaskChecks(args) ==
    <<validateRequired(Field(args, "name"), "name"),
      validateDateFormat(Field(args, "due_on"), "due_on"),
      validateDateFormat(Field(args, "start_on"), "start_on"),
      validateGid(Field(args, "assignee"), "assignee"),
      validateGid(Field(args, "parent"), "parent"),
      validateGid(Field(args, "workspace"), "workspace")>>

\* lines 775-808: const taskData, as the fields it ends up with
taskData(args) ==
    LET given == {f \in {"assignee", "parent", "due_on", "start_on"} :
                     ~Falsy(Field(args, f))}
        notes == IF ~Falsy(Field(args, "notes_file")) THEN {"notes"}
                 ELSE IF ~Falsy(Field(args, "notes")) THEN {"notes"}
                 ELSE {}
        projects == IF ~Falsy(Field(args, "projects")) THEN {"projects"} ELSE {}
    IN  [f \in {"name", "workspace"} \cup given \cup notes \cup projects |->
            CASE f = "workspace" ->
                    IF ~Falsy(Field(args, "workspace")) THEN args.workspace.chars
                    ELSE <<"9">>
              [] f = "notes" ->
                    IF ~Falsy(Field(args, "notes_file"))
                    THEN Files[args.notes_file.chars]
                    ELSE args.notes.chars
              [] f = "projects" -> projectGids(args)
              [] OTHER -> args[f].chars]

\* a thrown error: how the switch ends early
Throws(kind, message) == [does |-> "throw", failure |-> kind, message |-> message]

\* an awaited call of one of the helpers of lib/tasks.js
Awaits(helper, data) == [does |-> "await", helper |-> helper, data |-> data]

\* the switch of the handler for one tool call, up to its first await or
\* to the error thrown before it (lines 504-1287)
Switch(name, args) ==
    IF name = "create_task"
    THEN IF FirstThrown(CreateTaskChecks(args)) # ""
         THEN Throws("validation", FirstThrown(CreateTaskChecks(args)))
         ELSE IF /\ ~Falsy(Field(args, "notes_file"))
                 /\ args.notes_file.chars \notin DOMAIN Files
         THEN Throws("file", "Failed to read notes file: ENOENT")
         ELSE IF /\ ~Falsy(Field(args, "projects"))
                 /\ \E k \in DOMAIN projectGids(args) :
                       validateGid(Str(projectGids(args)[k]), "project GID") # ""
         THEN Throws("validation",
                  FirstThrown([k \in DOMAIN projectGids(args) |->
                                  validateGid(Str(projectGids(args)[k]), "project GID")]))
         ELSE Awaits("createTask",
                  processedTaskData(taskData(args), [convertMarkdown |-> "true"]))
    ELSE IF name = "add_comment"
    THEN LET checks == <<validateRequired(Field(args, "task_gid"), "task_gid"),
                         validateRequired(Field(args, "text"), "text"),
                         validateGid(Field(args, "task_gid"), "task_gid")>>
         IN  IF FirstThrown(checks) # ""
             THEN Throws("validation", FirstThrown(checks))
             ELSE Awaits("addTaskComment",
                      processedData([text |-> args.text.chars],
                                    [convertMarkdown |-> "false"]))
    ELSE Throws("unknown tool", "Unknown tool: " \o name)

\* the result object of the catch block (lines 1295-1335)
ErrorResult(message) ==
    [content |-> <<[type |-> "text", text |-> "Error: " \o message]>>,
     isError |-> TRUE]

\* the result object of a tool that ran to its end; isError is not set
OkResult(text) ==
    [content |-> <<[type |-> "text", text |-> text]>>, isError |-> FALSE]

NoResult == [content |-> <<>>, isError |-> FALSE]

\* the call once the switch went the given way; network counts the upstream
\* calls issued during the invocation
Went(call, way) ==
    IF way.does = "throw"
    THEN [call EXCEPT !.pc = "returned", !.failure = way.failure,
                      !.result = ErrorResult(way.message)]
    ELSE [call EXCEPT !.pc = "calling", !.helper = way.helper,
                      !.sent = way.data, !.network = @ + 1]

\* the call after the switch ran up to its first await or its first throw
Switched(call) == Went(call, Switch(call.name, call.args))

ToolNames == {"create_task", "add_comment", "frobnicate"}

ValidDate == <<"2", "0", "2", "6", "-", "0", "2", "-", "1", "4">>

\* the argument objects the calls are made with
ToolArgs(name) ==
    LET title == Str(<<"T">>)
        gid == Str(<<"1", "2">>)
    IN  IF name = "create_task"
        THEN { [name |-> title],
               [notes |-> Str(<<"x">>)],
               [name |-> title, due_on |-> Str(<<"t", "o", "d", "a", "y">>)],
               [name |-> title, due_on |-> Str([ValidDate EXCEPT ![6] = "1", ![7] = "3"])],
               [name |-> title, due_on |-> Str(ValidDate), assignee |-> Str(<<"m", "e">>)],
               [name |-> title, assignee |-> Str(<<"a", "b">>)],
               [name |-> title, projects |-> Str(<<"1", "2", ",", " ", "3">>)],
               [name |-> title, projects |-> Str(<<"1", "2", ",", " ", "x">>)],
               [name |-> title, notes_file |-> Str(<<"notes.md">>)],
               [name |-> title, notes_file |-> Str(<<"gone.md">>)],
               [name |-> title, notes |-> Str(<<"#", " ", "Top">>)],
               [name |-> title, notes |-> List(101)] }
        ELSE IF name = "add_comment"
        THEN { [task_gid |-> gid, text |-> Str(<<"#", " ", "Top">>)],
               [task_gid |-> gid, text |-> Str(<<"Hello">>)],
               [task_gid |-> gid],
               [task_gid |-> Str(<<"x">>), text |-> Str(<<"Hello">>)],
               [task_gid |-> gid, text |-> List(101)] }
        ELSE { <<>> }

InitServer ==
    /\ op = "server"
    /\ pc = "running"
    /\ currentUser = "null"
    /\ client = 0
    /\ env \in [ASANA_API_KEY : BOOLEAN]
    /\ calls = <<>>
    /\ cacheFile = [state |-> "missing"]
    /\ allProjects = <<>>
    /\ now = 0
    /\ arg = <<>>
    /\ ret = <<>>
    /\ i = 0
    /\ readableNotes = <<>>
    /\ content = <<>>
    /\ EnginesIdle

serverIdleVars == <<op, pc, env, cacheFile, allProjects, now, arg, ret, i, notesVars, engineVars>>

\* a request arrives: the handler runs up to its first await. A first call
\* (currentUser not set yet) runs initializeAsana, which assigns the API
\* instances and awaits getCurrentUser; any other call goes on to the switch
ToolCall ==
    /\ op = "server"
    /\ Len(calls) < MaxCalls
    /\ \E name \in ToolNames :
       \E args \in ToolArgs(name) :
          LET call == [name |-> name, args |-> args, pc |-> "arrived",
                       failure |-> "none", result |-> NoResult, network |-> 0,
                       helper |-> "", sent |-> <<>>]
          IN  IF ThrowsBeforeTry(args)
              THEN /\ calls' = Append(calls, [call EXCEPT !.pc = "escaped",
                                                          !.failure = "type"])
                   /\ UNCHANGED client
              ELSE IF currentUser # "null"
              THEN /\ calls' = Append(calls, Switched(call))
                   /\ UNCHANGED client
              ELSE IF ~env.ASANA_API_KEY
              THEN /\ calls' = Append(calls,
                          [call EXCEPT !.pc = "returned", !.failure = "initialization",
                              !.result = ErrorResult(
                                  "ASANA_API_KEY environment variable is required")])
                   /\ UNCHANGED client
              ELSE /\ calls' = Append(calls, [call EXCEPT !.pc = "initializing",
                                                          !.network = 1])
                   /\ client' = client + 1
    /\ UNCHANGED <<currentUser, serverIdleVars>>

\* getCurrentUser is answered: currentUser is assigned and the handler goes
\* on to the switch; or it is rejected, and the catch block returns
InitReturn ==
    /\ op = "server"
    /\ \E c \in DOMAIN calls :
          /\ calls[c].pc = "initializing"
          /\ \/ /\ currentUser' = "me"
                /\ calls' = [calls EXCEPT ![c] = Switched(calls[c])]
             \/ /\ calls' = [calls EXCEPT ![c] =
                               [@ EXCEPT !.pc = "returned", !.failure = "initialization",
                                         !.result = ErrorResult("Not Authorized")]]
                /\ UNCHANGED currentUser
    /\ UNCHANGED <<client, serverIdleVars>>

\* the awaited helper returns, or throws what its catch block throws (for
\* addTaskComment the ReferenceError of that block)
ToolReturn ==
    /\ op = "server"
    /\ \E c \in DOMAIN calls :
          /\ calls[c].pc = "calling"
          /\ \/ calls' = [calls EXCEPT ![c] =
                            [@ EXCEPT !.pc = "returned",
                                      !.result = OkResult(
                                          IF calls[c].helper = "createTask"
                                          THEN "Task created successfully!"
                                          ELSE "Comment added successfully!")]]
             \/ \E message \in UpstreamMessages :
                   calls' = [calls EXCEPT ![c] =
                               [@ EXCEPT !.pc = "returned", !.failure = "upstream",
                                   !.result = ErrorResult(
                                       IF calls[c].helper = "addTaskComment"
                                       THEN "processedData is not defined"
                                       ELSE message)]]
    /\ UNCHANGED <<currentUser, client, serverIdleVars>>

NextServer == ToolCall \/ InitReturn \/ ToolReturn

SpecServer == InitServer /\ [][NextServer]_vars

\* a call that the handler ended
Ended(call) == call.pc \in {"returned", "escaped"}

\* something failed during the call
Failed(call) == call.failure # "none"

\* C21: no error escapes the tool-call handler: every call that ended with
\* something having failed returned a result object with isError = true and
\* exactly one text message, and the server can be called again.
C21_NoErrorEscapes ==
    op = "server" =>
        \A c \in DOMAIN calls :
            (Ended(calls[c]) /\ Failed(calls[c])) =>
                /\ calls[c].pc = "returned"
                /\ calls[c].result.isError
                /\ Len(calls[c].result.content) = 1
                /\ calls[c].result.content[1].type = "text"

\* C22: a call whose parameters failed validation returned a descriptive
\* error, and no network call to the upstream service was issued during it.
C22_InvalidNoNetwork ==
    op = "server" =>
        \A c \in DOMAIN calls :
            calls[c].failure = "validation" =>
                /\ calls[c].pc = "returned"
                /\ calls[c].result.isError
                /\ calls[c].result.content[1].text # "Error: "
                /\ calls[c].network = 0

\* the text holds markdown formatting
HasMarkdown(text) == \E k \in DOMAIN text : text[k] \in MarkdownMarks

\* C23: the comment text of add_comment that holds markdown is converted
\* and sent as html_text, in place of text.
C23_CommentMarkdownConverted ==
    op = "server" =>
        \A c \in DOMAIN calls :
            (/\ calls[c].name = "add_comment"
             /\ calls[c].helper = "addTaskComment"
             /\ HasMarkdown(calls[c].args.text.chars)) =>
                /\ DOMAIN calls[c].sent = {"html_text"}
                /\ calls[c].sent.html_text =
                      markdownToAsanaHtml([defined |-> TRUE,
                                           text |-> calls[c].args.text.chars])

\* C28: the Asana client and the current user are initialised at most once
\* per process, whatever the interleaving of the calls.
C28_InitializedOnce == op = "server" => client <= 1

----------------------------------------------------------------------------
(* searchProjects and its cache file (lib/projects.js).                    *)
(* The projects of the first workspace are the gids 1..upstream.n, those   *)
(* of the second workspace the two gids after them; a project's archived   *)
(* flag, team and name follow from its gid.  The calls are made one after  *)
(* another; between them the clock advances, clearCache may run and the    *)
(* file may be damaged.                                                    *)

CACHE_DURATION_MS == 24 * 60 * 60 * 1000

\* limit: 100
ProjectsLimit == 100

Workspaces == {"W1", "W2"}

\* project.archived
Archived(gid) == gid % 2 = 0

\* project.team
TeamOf(gid) == IF gid % 3 = 0 THEN "T1" ELSE "T2"

\* project.name.toLowerCase().includes(searchLower), for the name searched
ProjectNameIncludes(gid) == gid % 5 = 0

WorkspaceProjects(workspace) ==
    IF workspace = "W1" THEN Upto(1, upstream.n)
    ELSE Upto(upstream.n + 1, upstream.n + 2)

\* the projects the query selects; a key that was deleted from the query
\* because it was undefined does not filter
Selected(query, gid) ==
    /\ query.archived # "undefined" => (Archived(gid) <=> query.archived = "true")
    /\ query.team # "undefined" => TeamOf(gid) = query.team

Listed(query) ==
    SelectSeq(WorkspaceProjects(query.workspace), LAMBDA gid : Selected(query, gid))

\* one answer of projectsApiInstance.getProjects: a page of at most limit
\* projects from the offset on, and the offset of the next page (0: none)
ProjectsPage(listed, query) ==
    [data |-> SubSeq(listed, query.offset + 1,
                     Min(query.offset + query.limit, Len(listed))),
     next_page |-> IF query.offset + query.limit < Len(listed)
                   THEN query.offset + query.limit ELSE 0]

getProjects(query) == ProjectsPage(Listed(query), query)

\* null
NoProjects == [hit |-> FALSE, projects |-> <<>>]

\* faulty variant: a file exactly 24 hours old counts as expired
loadCache_Mut(workspace) ==
    IF cacheFile.state = "missing" THEN NoProjects
    ELSE IF cacheFile.state = "corrupt" THEN NoProjects
    ELSE IF cacheFile.workspace # workspace THEN NoProjects
    ELSE IF now - cacheFile.timestamp >= CACHE_DURATION_MS THEN NoProjects
    ELSE [hit |-> TRUE, projects |-> cacheFile.projects]

\* loadCache: the cached projects, or null. JSON.parse throws on a damaged
\* file and the catch block returns null
loadCache(workspace) ==
    IF cacheFile.state = "missing" THEN NoProjects
    ELSE IF cacheFile.state = "corrupt" THEN NoProjects
    ELSE IF cacheFile.workspace # workspace THEN NoProjects
    ELSE IF now - cacheFile.timestamp > CACHE_DURATION_MS THEN NoProjects
    ELSE [hit |-> TRUE, projects |-> cacheFile.projects]

\* saveCache: what the file holds afterwards
savedCache(workspace, projects) ==
    [state |-> "json", workspace |-> workspace, timestamp |-> now,
     projects |-> projects]

\* the client-side name filter
NameFiltered(projects, options) ==
    IF options.name # ""
    THEN SelectSeq(projects, ProjectNameIncludes)
    ELSE projects

\* the options a call is made with; a name of "" is no name
ProjectOptions ==
    [name : {"", "a"}, archived : {"undefined", "true", "false"},
     team : {"undefined", "T1"}, noCache : BOOLEAN]

\* const apiOptions of the first request
ProjectsQuery(workspace, options) ==
    [workspace |-> workspace, archived |-> options.archived, team |-> options.team,
     limit |-> ProjectsLimit, offset |-> 0]

\* the moments Date.now() is read at: each day's start and the
\* millisecond after it
Instants == {d * CACHE_DURATION_MS + e : d \in 0..MaxDays, e \in 0..1}

InitProjects ==
    /\ op = "searchProjects"
    /\ pc = "idle"
    /\ upstream \in {[n |-> 0], [n |-> MaxProjects]}
    /\ signalAborted = FALSE
    /\ searchOptions = NoSearchOptions
    /\ fetchOptions = NoFetchOptions
    /\ apiOptions = NoQuery
    /\ allTasks = <<>>
    /\ requests = <<>>
    /\ pageLens = <<>>
    /\ lastTimeMissing = FALSE
    /\ error = ""
    /\ result = <<>>
    /\ offset = 0
    /\ tokens = <<>>
    /\ fetched = <<>>
    /\ arg = <<>>
    /\ ret = <<>>
    /\ i = 0
    /\ readableNotes = <<>>
    /\ content = <<>>
    /\ ProcessIdle

projectsIdleVars == <<op, upstream, signalAborted, searchOptions, fetchOptions,
                      apiOptions, allTasks, lastTimeMissing, tokens, fetched, ret,
                      notesVars, currentUser, client, env, calls>>

\* what a call does with what loadCache gave it: it returns the cached
\* projects, or issues the first request
Loaded(workspace, options, cached) ==
    IF cached.hit
    THEN /\ allProjects' = cached.projects
         /\ result' = NameFiltered(cached.projects, options)
         /\ requests' = <<>>
         /\ pc' = "done"
    ELSE /\ allProjects' = <<>>
         /\ result' = <<>>
         /\ requests' = <<ProjectsQuery(workspace, options)>>
         /\ pc' = "await"

\* a call of searchProjects, up to its return or its first await; i counts
\* the calls
SearchProjectsCall ==
    /\ op = "searchProjects"
    /\ pc \in {"idle", "done", "failed"}
    /\ i < MaxSearches
    /\ \E workspace \in Workspaces :
       \E options \in ProjectOptions :
          /\ arg' = [workspace |-> workspace, options |-> options]
          /\ Loaded(workspace, options,
                    IF options.noCache THEN NoProjects ELSE loadCache(workspace))
    /\ i' = i + 1
    /\ error' = ""
    /\ offset' = 0
    /\ pageLens' = <<>>
    /\ UNCHANGED <<cacheFile, now, projectsIdleVars>>

\* what the call does with an answer: it asks for the next page, or saves
\* the projects to the cache file, filters them by name and returns
Received(page, gathered) ==
    /\ allProjects' = gathered
    /\ pageLens' = Append(pageLens, Len(page.data))
    /\ offset' = page.next_page
    /\ IF page.next_page # 0
       THEN /\ requests' = Append(requests,
                              [requests[Len(requests)] EXCEPT !.offset = page.next_page])
            /\ UNCHANGED <<pc, result, cacheFile>>
       ELSE /\ cacheFile' = savedCache(arg.workspace, gathered)
            /\ result' = NameFiltered(gathered, arg.options)
            /\ pc' = "done"
            /\ UNCHANGED requests

ProjectsReceive ==
    /\ op = "searchProjects"
    /\ pc = "await"
    /\ Received(getProjects(requests[Len(requests)]),
                allProjects \o getProjects(requests[Len(requests)]).data)
    /\ UNCHANGED <<arg, i, error, now, projectsIdleVars>>

\* getProjects is rejected: the catch block throws the error again
ProjectsReject ==
    /\ op = "searchProjects"
    /\ pc = "await"
    /\ pc' = "failed"
    /\ error' \in UpstreamMessages
    /\ UNCHANGED <<arg, i, allProjects, requests, pageLens, offset, result,
                   cacheFile, now, projectsIdleVars>>

processIdleVars == <<arg, i, allProjects, requests, pageLens, offset, result, error,
                     pc, projectsIdleVars>>

\* clearCache
clearCache ==
    /\ op = "searchProjects"
    /\ cacheFile.state # "missing"
    /\ cacheFile' = [state |-> "missing"]
    /\ UNCHANGED <<now, processIdleVars>>

\* the file is damaged (cut short, overwritten): it no longer parses
CacheDamaged ==
    /\ op = "searchProjects"
    /\ cacheFile.state = "json"
    /\ cacheFile' = [state |-> "corrupt"]
    /\ UNCHANGED <<now, processIdleVars>>

\* the clock advances
Tick ==
    /\ op = "searchProjects"
    /\ \E later \in Instants : later > now /\ now' = later
    /\ UNCHANGED <<cacheFile, processIdleVars>>

NextProjects ==
    \/ SearchProjectsCall \/ ProjectsReceive \/ ProjectsReject
    \/ clearCache \/ CacheDamaged \/ Tick

SpecProjects == InitProjects /\ [][NextProjects]_vars

\* C24: a call with archived = true or false returns only projects of that
\* status, whatever calls were made before it and whether the projects were
\* fetched or came from the cache.
C24_OnlyRequestedStatus ==
    (op = "searchProjects" /\ pc = "done" /\ arg.options.archived # "undefined") =>
        \A k \in DOMAIN result :
            Archived(result[k]) <=> arg.options.archived = "true"

\* the cache file may be used for the workspace
Usable(workspace) ==
    /\ cacheFile.state = "json"
    /\ cacheFile.workspace = workspace
    /\ now - cacheFile.timestamp <= CACHE_DURATION_MS

\* the number of pages that many projects come in
PagesFor(count) ==
    IF count = 0 THEN 1 ELSE (count + ProjectsLimit - 1) \div ProjectsLimit

\* a call uses the cache exactly when it may, and otherwise starts to fetch
CacheUsedWhenUsable ==
    (op = "searchProjects" /\ i' = i + 1) =>
        IF ~arg'.options.noCache /\ Usable(arg'.workspace)
        THEN /\ pc' = "done"
             /\ requests' = <<>>
             /\ result' = NameFiltered(cacheFile.projects, arg'.options)
             /\ cacheFile' = cacheFile
        ELSE /\ pc' = "await"
             /\ requests' = <<ProjectsQuery(arg'.workspace, arg'.options)>>

\* a fetch that ends has asked for every page and has written the file
FetchedAllAndSaved ==
    (op = "searchProjects" /\ pc = "await" /\ pc' = "done") =>
        /\ allProjects' = Listed(requests[1])
        /\ Len(requests) = PagesFor(Len(allProjects'))
        /\ cacheFile' = [state |-> "json", workspace |-> arg.workspace,
                         timestamp |-> now, projects |-> allProjects']
        /\ result' = NameFiltered(allProjects', arg.options)

\* C25: the cache is used only when the file exists, parses, is for the
\* same workspace and is at most 24 hours old, and noCache is not set;
\* otherwise all pages are fetched again and the file is rewritten.
C25_CacheRule == [][CacheUsedWhenUsable /\ FetchedAllAndSaved]_vars

C25_Witness ==
    /\ op = "searchProjects" /\ pc = "done" /\ i = 2
    /\ ~arg.options.noCache
    /\ Len(requests) = 3
    /\ pageLens = <<ProjectsLimit, ProjectsLimit, MaxProjects - 2 * ProjectsLimit>>
    /\ now = 2 * CACHE_DURATION_MS + 1
    /\ cacheFile = savedCache(arg.workspace, Upto(1, MaxProjects))

====
